---- MODULE Spec2Model ----
(***************************************************************************)
(* A model of the UIN engine core: the in-memory World Store, the local    *)
(* event bus, the narrative-memory compaction service and the Move         *)
(* command handler.                                                        *)
(*                                                                         *)
(* Python objects are mutable and shared by reference, so the model keeps  *)
(* a heap of GameWorld objects: a reference is an address, a deep copy     *)
(* allocates a fresh address, and an in-place mutation changes the object  *)
(* every holder of that address sees.                                      *)
(***************************************************************************)
EXTENDS Integers, Sequences, FiniteSets, TLC

VARIABLES
  _worlds,      \* InMemoryWorldRepository._worlds: world id -> address (None if absent)
  heap,         \* address -> GameWorld object (Free if unallocated)
  held,         \* per caller: the address of the world it has in hand (None if none)
  tasks,        \* the background tasks created by MemoryService, in creation order
  LastSaved,    \* history: the world as it was passed to the most recent save (NoWorld if none)
  savedLog,     \* history: the callers of the last two saves, and whether each saved a note of its own
  lastOp,       \* history: the last repository/service operation and its arguments
  sched,        \* history, per background task: what the store held when it was scheduled
  _subscriptions, \* LocalEventBus._subscriptions: event type -> handlers, in insertion order
  pub,          \* the publish call in progress (or the last one): its event and handler tasks
  move,         \* the Move command in progress: its caller, command and position
  cmd           \* the examine, talk, end-dialogue or accuse command in progress

busVars == <<_subscriptions, pub>>

vars == <<_worlds, heap, held, tasks, LastSaved, savedLog, lastOp, sched, _subscriptions, pub, move, cmd>>

(***************************************************************************)
(* Bounds of the model.                                                    *)
(***************************************************************************)
MaxNotes == 1        \* lines a caller may append to one character in the store scenario
MaxTasks == 2        \* background tasks created in one run
MaxSubs == 3         \* subscriptions made on the bus in one run
MaxMoves == 2        \* moves made in one run

(***************************************************************************)
(* Values.                                                                 *)
(***************************************************************************)
None == "None"
WORLD_ID == "yacht_mystery"
WorldIds == {WORLD_ID}
Callers == {"c1", "c2"}

Free == [id |-> "free"]
NoWorld == [id |-> "none"]

CharacterIds == {"player", "sophie"}
PLAYER_ID == "player"

\* An empty dict.
EmptyDict == [k \in {} |-> None]

\* The fields the model follows; those left out of a constructor take the
\* defaults of the class (empty knowledge, empty schedule, no objects, no
\* facts, no dialogue session, no solution, a clock at 08:00). A time of day
\* is the number of minutes since midnight.
Character(location_id, narrative_memory) ==
  [location_id |-> location_id, narrative_memory |-> narrative_memory,
   knowledge |-> EmptyDict, schedule |-> <<>>]

Location(connections) ==
  [connections |-> connections, objects |-> <<>>]

\* solution: Optional[Solution] = None, as a solution that names nobody.
NoSolution ==
  [killer_id |-> None, required_fact_ids |-> <<>>]

GameWorld(id, characters, locations) ==
  [id |-> id, player_id |-> PLAYER_ID, characters |-> characters, locations |-> locations,
   facts |-> {}, game_time |-> 8 * 60, active_dialogues |-> EmptyDict,
   solution |-> NoSolution]

Clue(fact_id, is_found) ==
  [fact_id |-> fact_id, is_found |-> is_found]

GameObject(id, clues) ==
  [id |-> id, clues |-> clues]

KnowledgeEntry(fact_id, certainty) ==
  [fact_id |-> fact_id, certainty |-> certainty]

Solution(killer_id, required_fact_ids) ==
  [killer_id |-> killer_id, required_fact_ids |-> required_fact_ids]

DialogueReplica(speaker_id, message) ==
  [speaker_id |-> speaker_id, message |-> message]

DialogueSession(participants, history, is_active) ==
  [participants |-> participants, history |-> history, is_active |-> is_active]

\* The map of the scenario. A connection is declared per direction: bridge
\* and deck are connected both ways, deck leads to the cabin and the cabin
\* to the bridge, one way each.
LocationIds == {"bridge", "deck", "cabin"}

ScenarioLocations ==
  [l \in LocationIds |->
     Location(CASE l = "bridge" -> {"deck"}
                [] l = "deck" -> {"bridge", "cabin"}
                [] l = "cabin" -> {"bridge"})]

\* The world the scenario loader hands to the driver: every character on the
\* bridge, with an empty narrative memory.
LoadedWorld ==
  GameWorld(WORLD_ID, [c \in CharacterIds |-> Character("bridge", <<>>)], ScenarioLocations)

\* No examine, talk, end-dialogue or accuse command is in progress; count is
\* the number of such commands that have changed a world so far.
NoCmd ==
  [pc |-> "idle", caller |-> None, command |-> [kind |-> None], locals |-> <<>>, count |-> 0]

\* No Move command is in progress; count is the number of moves made so far.
NoMove ==
  [pc |-> "idle", caller |-> None, command |-> [character_id |-> None, target_location_id |-> None],
   from |-> None, changed |-> <<>>, count |-> 0]

(***************************************************************************)
(* The heap. An address names the place of an object: the store's object   *)
(* for a world id, the object a caller has in hand, the object a           *)
(* background task has in hand. A deep copy writes an equal value at the   *)
(* address of whoever receives it; sharing is two references holding the   *)
(* same address.                                                           *)
(***************************************************************************)
TaskAddr(i) == ToString(i)

Addrs == WorldIds \cup Callers \cup {TaskAddr(i) : i \in 1..(MaxTasks + 1)}

Roots ==
  ({_worlds[w] : w \in WorldIds} \cup {held[c] : c \in Callers}
     \cup {tasks[i].world : i \in DOMAIN tasks}) \ {None}

\* Objects no reference reaches are reclaimed (reference counting): h is the
\* heap after the step, live the addresses still referenced after it.
Collect(h, live) ==
  [a \in Addrs |-> IF a \in live THEN h[a] ELSE Free]

\* BaseModel.model_copy(deep=True): a new object, at address to, with a value
\* equal to that of the object at addr.
model_copy(h, addr, to) ==
  [ret |-> to, heap |-> [h EXCEPT ![to] = h[addr]]]

(***************************************************************************)
(* InMemoryWorldRepository. Each operation takes the heap h it runs on and *)
(* returns the heap it leaves; get_by_id also takes the address at which   *)
(* its caller receives the result.                                         *)
(***************************************************************************)
\* A get that hands out the stored object itself.
get_by_id_shared(h, world_id, to) ==
  [ret |-> _worlds[world_id], heap |-> h]

\* get_by_id: a deep copy of the stored world, or None.
get_by_id(h, world_id, to) ==
  LET world == _worlds[world_id]
  IN  IF world # None THEN model_copy(h, world, to) ELSE [ret |-> None, heap |-> h]

\* A save that keeps the caller's object.
save_shared(h, world) ==
  [worlds |-> [_worlds EXCEPT ![h[world].id] = world], heap |-> h]

\* A save that keeps the first world stored under an id.
save_first_wins(h, world) ==
  IF _worlds[h[world].id] # None
  THEN [worlds |-> _worlds, heap |-> h]
  ELSE LET c == model_copy(h, world, h[world].id)
       IN  [worlds |-> [_worlds EXCEPT ![h[world].id] = c.ret], heap |-> c.heap]

\* save: the store keeps a deep copy under the world's id.
save(h, world) ==
  LET c == model_copy(h, world, h[world].id)
  IN  [worlds |-> [_worlds EXCEPT ![h[world].id] = c.ret], heap |-> c.heap]

\* clear: the test helper that empties the store.
clear ==
  [w \in WorldIds |-> None]

\* The content of the store under an id, as a value.
Stored(world_id) ==
  IF _worlds[world_id] = None THEN NoWorld ELSE heap[_worlds[world_id]]

Log2(log, entry) ==
  IF Len(log) < 2 THEN Append(log, entry) ELSE <<log[2], entry>>

(***************************************************************************)
(* Callers of the store: each gets (or loads) a world, mutates the object  *)
(* it has in hand, and saves it.                                           *)
(***************************************************************************)
\* The note a caller appends: its own text, so that two callers' changes differ.
Note(c) == <<"note", c>>

HasNote(world, c) ==
  \E ch \in DOMAIN world.characters :
    \E i \in DOMAIN world.characters[ch].narrative_memory :
      world.characters[ch].narrative_memory[i] = Note(c)

NoteCount(memory) ==
  Cardinality({i \in DOMAIN memory : memory[i] \in {Note(c) : c \in Callers}})

\* History: a write to the store (a save by a caller or by task i, a clear)
\* happened while the other tasks were in flight.
OtherWrite(sc, i) ==
  [j \in DOMAIN sc |->
     IF j # i /\ tasks[j].pc \notin {"done", "dropped"}
     THEN [sc[j] EXCEPT !.clean = FALSE] ELSE sc[j]]

\* _setup_demo_world: the loader builds a world object and hands it to the caller.
Load(c) ==
  /\ held[c] = None
  /\ held' = [held EXCEPT ![c] = c]
  /\ lastOp' = [op |-> "load", caller |-> c]
  /\ UNCHANGED <<_worlds, tasks, sched, LastSaved, savedLog, busVars, move, cmd>>
  /\ heap' = Collect([heap EXCEPT ![c] = LoadedWorld], Roots')

\* world = await repo.get_by_id(WORLD_ID)
Get(c) ==
  /\ held[c] = None
  /\ LET r == get_by_id(heap, WORLD_ID, c)
     IN  /\ held' = [held EXCEPT ![c] = r.ret]
         /\ lastOp' = [op |-> "get", caller |-> c]
         /\ UNCHANGED <<_worlds, tasks, sched, LastSaved, savedLog, busVars, move, cmd>>
         /\ heap' = Collect(r.heap, Roots')

\* character.narrative_memory.append(...) on the object in hand.
AppendLine(c, ch) ==
  /\ held[c] # None
  /\ ch \in DOMAIN heap[held[c]].characters
  /\ NoteCount(heap[held[c]].characters[ch].narrative_memory) < MaxNotes
  /\ heap' = [heap EXCEPT ![held[c]].characters[ch].narrative_memory = Append(@, Note(c))]
  /\ lastOp' = [op |-> "append", caller |-> c]
  /\ UNCHANGED <<_worlds, held, tasks, sched, LastSaved, savedLog, busVars, move, cmd>>

\* await repo.save(world); the caller keeps its reference.
Save(c) ==
  /\ held[c] # None
  /\ LET r == save(heap, held[c])
     IN  /\ _worlds' = r.worlds
         /\ LastSaved' = heap[held[c]]
         /\ savedLog' = Log2(savedLog, [by |-> c, noted |-> HasNote(heap[held[c]], c)])
         /\ lastOp' = [op |-> "save", caller |-> c]
         /\ sched' = OtherWrite(sched, 0)
         /\ UNCHANGED <<held, tasks, busVars, move, cmd>>
         /\ heap' = Collect(r.heap, Roots')

\* The caller's variable is rebound: it drops its reference.
Release(c) ==
  /\ held[c] # None
  /\ held' = [held EXCEPT ![c] = None]
  /\ lastOp' = [op |-> "release", caller |-> c]
  /\ UNCHANGED <<_worlds, tasks, sched, LastSaved, savedLog, busVars, move, cmd>>
  /\ heap' = Collect(heap, Roots')

\* repo.clear()
Clear ==
  /\ _worlds[WORLD_ID] # None
  /\ _worlds' = clear
  /\ LastSaved' = NoWorld
  /\ savedLog' = <<>>
  /\ lastOp' = [op |-> "clear", caller |-> "test"]
  /\ sched' = OtherWrite(sched, 0)
  /\ UNCHANGED <<held, tasks, busVars, move, cmd>>
  /\ heap' = Collect(heap, Roots')

(***************************************************************************)
(* Domain events and their class hierarchy (domain/events.py).             *)
(***************************************************************************)
EventTypes == {"DomainEvent", "CharacterMoved", "FactDiscovered", "DialogueOccurred"}

\* The direct base classes of a class.
Bases(cls) ==
  CASE cls \in {"CharacterMoved", "FactDiscovered", "DialogueOccurred"} -> {"DomainEvent"}
    [] cls = "DomainEvent" -> {"BaseModel", "ABC"}
    [] cls \in {"BaseModel", "ABC"} -> {"object"}
    [] OTHER -> {}

RECURSIVE Ancestors(_)
Ancestors(cls) ==
  {cls} \cup UNION {Ancestors(b) : b \in Bases(cls)}

\* isinstance(event, cls): cls is the event's class or one of its ancestors.
isinstance(event, cls) ==
  cls \in Ancestors(event.type)

NoEvent == [type |-> "object"]

(***************************************************************************)
(* LocalEventBus. _subscriptions is a dict of lists: a sequence of         *)
(* [type, handlers] entries in key-insertion order.                        *)
(***************************************************************************)
Handlers == {"h1", "h2"}

\* self._subscriptions[event_type].append(handler)
subscribe(subs, event_type, handler) ==
  IF \E i \in DOMAIN subs : subs[i].type = event_type
  THEN LET i == CHOOSE j \in DOMAIN subs : subs[j].type = event_type
       IN  [subs EXCEPT ![i].handlers = Append(@, handler)]
  ELSE Append(subs, [type |-> event_type, handlers |-> <<handler>>])

RECURSIVE collect_exact(_, _, _)
collect_exact(subs, event, i) ==
  IF i > Len(subs) THEN <<>>
  ELSE (IF subs[i].type = event.type THEN subs[i].handlers ELSE <<>>)
         \o collect_exact(subs, event, i + 1)

\* A dispatch on the event's exact type only.
handlers_to_run_exact(subs, event) ==
  collect_exact(subs, event, 1)

RECURSIVE collect(_, _, _)
collect(subs, event, i) ==
  IF i > Len(subs) THEN <<>>
  ELSE (IF isinstance(event, subs[i].type) THEN subs[i].handlers ELSE <<>>)
         \o collect(subs, event, i + 1)

\* The loop of publish: the handlers of every subscribed type the event is an
\* instance of, in subscription order.
handlers_to_run(subs, event) ==
  collect(subs, event, 1)

\* publish up to its await: one task per handler to run, all started by
\* asyncio.gather; with no handler to run publish returns at once.
publish(subs, event) ==
  LET hs == handlers_to_run(subs, event)
  IN  [event |-> event,
       subs |-> subs,
       runs |-> [i \in DOMAIN hs |-> [handler |-> hs[i], status |-> "running", end |-> 0]],
       pc |-> IF hs = <<>> THEN "returned" ELSE "awaiting"]

Finished(run) == run.status \in {"done", "failed"}

\* History: the rank at which a task ends among the tasks of its publish.
EndRank(runs) == Cardinality({j \in DOMAIN runs : runs[j].end # 0}) + 1

\* A gather that cancels the handlers still running when one of them fails.
handler_failed_cancelling(runs, i) ==
  [j \in DOMAIN runs |->
     IF j = i THEN [runs[j] EXCEPT !.status = "failed", !.end = EndRank(runs)]
     ELSE IF runs[j].status = "running" THEN [runs[j] EXCEPT !.status = "cancelled"]
     ELSE runs[j]]

\* A handler task ends with an exception: asyncio.gather leaves the other
\* tasks alone.
handler_failed(runs, i) ==
  [runs EXCEPT ![i].status = "failed", ![i].end = EndRank(runs)]

\* asyncio.gather (return_exceptions=False) resolves when every task has
\* finished or as soon as one task has raised.
gather_resolves(runs) ==
  \/ \A i \in DOMAIN runs : runs[i].status = "done"
  \/ \E i \in DOMAIN runs : runs[i].status = "failed"

NoPub == [event |-> NoEvent, subs |-> <<>>, runs |-> <<>>, pc |-> "none"]

SubCount(subs) ==
  IF subs = <<>> THEN 0
  ELSE LET n[i \in 0..Len(subs)] == IF i = 0 THEN 0 ELSE n[i - 1] + Len(subs[i].handlers)
       IN  n[Len(subs)]

storeFrame == <<_worlds, heap, held, tasks, sched, LastSaved, savedLog, lastOp, move, cmd>>

\* event_bus.subscribe(event_type, handler)
Subscribe(event_type, handler) ==
  /\ SubCount(_subscriptions) < MaxSubs
  /\ _subscriptions' = subscribe(_subscriptions, event_type, handler)
  /\ UNCHANGED <<pub, storeFrame>>

\* await event_bus.publish(event): the publisher runs up to the await. One
\* publisher: the game loop issues one command at a time.
Publish(event) ==
  /\ pub.pc \in {"none", "returned", "raised"}
  /\ \A i \in DOMAIN pub.runs : pub.runs[i].status # "running"
  /\ pub' = publish(_subscriptions, event)
  /\ UNCHANGED <<_subscriptions, storeFrame>>

\* A handler task returns.
HandlerReturn(i) ==
  /\ i \in DOMAIN pub.runs
  /\ pub.runs[i].status = "running"
  /\ pub' = [pub EXCEPT !.runs[i].status = "done", !.runs[i].end = EndRank(pub.runs)]
  /\ UNCHANGED <<_subscriptions, storeFrame>>

\* A handler task raises.
HandlerRaise(i) ==
  /\ i \in DOMAIN pub.runs
  /\ pub.runs[i].status = "running"
  /\ pub' = [pub EXCEPT !.runs = handler_failed(pub.runs, i)]
  /\ UNCHANGED <<_subscriptions, storeFrame>>

\* The await of publish completes: it returns, or raises the first exception.
PublishResolve ==
  /\ pub.pc = "awaiting"
  /\ gather_resolves(pub.runs)
  /\ pub' = [pub EXCEPT !.pc = IF \E i \in DOMAIN pub.runs : pub.runs[i].status = "failed"
                                THEN "raised" ELSE "returned"]
  /\ UNCHANGED <<_subscriptions, storeFrame>>

BusEventTypes == {"CharacterMoved", "FactDiscovered"}
BusSubscribedTypes == {"DomainEvent", "CharacterMoved", "FactDiscovered"}

InitBus ==
  /\ _worlds = [w \in WorldIds |-> None]
  /\ heap = [a \in Addrs |-> Free]
  /\ held = [c \in Callers |-> None]
  /\ tasks = <<>>
  /\ sched = <<>>
  /\ LastSaved = NoWorld
  /\ savedLog = <<>>
  /\ lastOp = [op |-> "init", caller |-> "none"]
  /\ _subscriptions = <<>>
  /\ pub = NoPub
  /\ move = NoMove
  /\ cmd = NoCmd

NextBus ==
  \/ \E t \in BusSubscribedTypes, h \in Handlers : Subscribe(t, h)
  \/ \E t \in BusEventTypes : Publish([type |-> t])
  \/ \E i \in 1..(MaxSubs + 1) : HandlerReturn(i)
  \/ \E i \in 1..(MaxSubs + 1) : HandlerRaise(i)
  \/ PublishResolve

SpecBus == InitBus /\ [][NextBus]_vars

\* The event loop keeps running the tasks it holds: a handler that has been
\* started ends (returning or raising), and a publisher whose await can
\* complete is resumed.
FairSpecBus ==
  /\ SpecBus
  /\ \A i \in 1..(MaxSubs + 1) : WF_vars(HandlerReturn(i) \/ HandlerRaise(i))
  /\ WF_vars(PublishResolve)

InitStore ==
  /\ _worlds = [w \in WorldIds |-> None]
  /\ heap = [a \in Addrs |-> Free]
  /\ held = [c \in Callers |-> None]
  /\ tasks = <<>>
  /\ sched = <<>>
  /\ LastSaved = NoWorld
  /\ savedLog = <<>>
  /\ lastOp = [op |-> "init", caller |-> "none"]
  /\ _subscriptions = <<>>
  /\ pub = NoPub
  /\ move = NoMove
  /\ cmd = NoCmd

NextStore ==
  \/ \E c \in Callers : Load(c)
  \/ \E c \in Callers : Get(c)
  \/ \E c \in Callers : AppendLine(c, PLAYER_ID)
  \/ \E c \in Callers : Save(c)
  \/ \E c \in Callers : Release(c)
  \/ Clear

SpecStore == InitStore /\ [][NextStore]_vars

(***************************************************************************)
(* MemoryService: the compaction of a character's narrative memory.        *)
(***************************************************************************)
DEFAULT_THRESHOLD == 15
DEFAULT_ITEMS_TO_SUMMARIZE == 10

\* The arguments the service is called with in the model.
Thresholds == {0, DEFAULT_THRESHOLD}
ChunkSizes == {1, DEFAULT_ITEMS_TO_SUMMARIZE}

\* What the summarization service answers to the request of task i: a text
\* of its own, equal to no narrative line and to no other answer.
Summary(i) == <<"summary", ToString(i)>>

\* The narrative lines a stored world starts with: e0, e1, ...
Entry(i) == <<"e", ToString(i)>>
EventLog(n) == [i \in 1..n |-> Entry(i - 1)]

\* Python slices: seq[:n] and seq[n:], n >= 0.
Take(seq, n) == SubSeq(seq, 1, IF n < Len(seq) THEN n ELSE Len(seq))
Drop(seq, n) == SubSeq(seq, n + 1, Len(seq))

IsPrefix(p, seq) ==
  Len(p) <= Len(seq) /\ SubSeq(seq, 1, Len(p)) = p

\* asyncio.create_task(self._summarize_chunk(world_id, character_id, chunk)):
\* a task that has not run yet. calls counts its summarize requests, saves
\* its saves; why tells how it was dropped.
create_task(world_id, character_id, chunk) ==
  [world_id |-> world_id, character_id |-> character_id, chunk |-> chunk,
   pc |-> "created", summary |-> <<>>, world |-> None,
   calls |-> 0, saves |-> 0, why |-> ""]

\* A check that also fires when the memory has exactly threshold entries.
compress_memory_if_needed_at_threshold(ts, world, character_id, threshold, items_to_summarize) ==
  LET memory == world.characters[character_id].narrative_memory
  IN  IF Len(memory) >= threshold
      THEN Append(ts, create_task(world.id, character_id, Take(memory, items_to_summarize)))
      ELSE ts

\* compress_memory_if_needed: the tasks after the call, given those before.
compress_memory_if_needed(ts, world, character_id, threshold, items_to_summarize) ==
  LET memory == world.characters[character_id].narrative_memory
  IN  IF Len(memory) > threshold
      THEN Append(ts, create_task(world.id, character_id, Take(memory, items_to_summarize)))
      ELSE ts

\* A rewrite that keeps the summarized entries behind the summary.
new_memory_keeping_chunk(summary, current_memory, chunk) ==
  <<summary>> \o current_memory

\* new_memory = [summary] + current_memory[len(chunk):]
new_memory(summary, current_memory, chunk) ==
  <<summary>> \o Drop(current_memory, Len(chunk))

\* A task that asks for the summary again after a failure.
summarize_failed_retrying(task) ==
  [task EXCEPT !.pc = "created"]

\* The summarization raises: the except clause prints and the task ends.
summarize_failed(task) ==
  [task EXCEPT !.pc = "dropped", !.why = "summarize"]

StoredMemory(world_id, character_id) ==
  IF Stored(world_id) # NoWorld /\ character_id \in DOMAIN Stored(world_id).characters
  THEN Stored(world_id).characters[character_id].narrative_memory
  ELSE <<>>

\* History of a task, taken when it is scheduled: what the store held for
\* the character, and whether the caller's memory is that with lines appended.
Scheduling(c, world, ch, items) ==
  [by |-> c, items |-> items,
   stored |-> StoredMemory(world.id, ch),
   appended |-> IsPrefix(StoredMemory(world.id, ch), world.characters[ch].narrative_memory),
   clean |-> TRUE, result |-> <<>>]

\* memory_service.compress_memory_if_needed(world, character, threshold, items)
\* by a caller, on the world it has in hand.
Compress(c, ch, threshold, items) ==
  /\ held[c] # None
  /\ ch \in DOMAIN heap[held[c]].characters
  /\ tasks' = compress_memory_if_needed(tasks, heap[held[c]], ch, threshold, items)
  /\ Len(tasks') <= MaxTasks
  /\ sched' = IF Len(tasks') > Len(tasks)
              THEN Append(sched, Scheduling(c, heap[held[c]], ch, items))
              ELSE sched
  /\ lastOp' = [op |-> "compress", caller |-> c, threshold |-> threshold,
                items |-> items,
                len |-> Len(heap[held[c]].characters[ch].narrative_memory),
                before |-> Len(tasks)]
  /\ UNCHANGED <<_worlds, heap, held, LastSaved, savedLog, busVars, move, cmd>>

\* The event loop starts the task: it joins the chunk and awaits
\* llm_service.summarize(text).
TaskStart(i) ==
  /\ i \in DOMAIN tasks
  /\ tasks[i].pc = "created"
  /\ tasks' = [tasks EXCEPT ![i].pc = "summarizing", ![i].calls = @ + 1]
  /\ UNCHANGED <<_worlds, heap, held, sched, LastSaved, savedLog, lastOp, busVars, move, cmd>>

\* The summarization service answers.
TaskSummarized(i) ==
  /\ i \in DOMAIN tasks
  /\ tasks[i].pc = "summarizing"
  /\ tasks' = [tasks EXCEPT ![i].pc = "fetching", ![i].summary = Summary(i)]
  /\ UNCHANGED <<_worlds, heap, held, sched, LastSaved, savedLog, lastOp, busVars, move, cmd>>

\* The summarization service fails.
TaskSummarizeFails(i) ==
  /\ i \in DOMAIN tasks
  /\ tasks[i].pc = "summarizing"
  /\ tasks' = [tasks EXCEPT ![i] = summarize_failed(tasks[i])]
  /\ UNCHANGED <<_worlds, heap, held, sched, LastSaved, savedLog, lastOp, busVars, move, cmd>>

\* world = await self._repo.get_by_id(world_id), the two checks, and the
\* rewrite of the character's memory in the world just read.
TaskFetch(i) ==
  /\ i \in DOMAIN tasks
  /\ tasks[i].pc = "fetching"
  /\ LET t == tasks[i]
         r == get_by_id(heap, t.world_id, TaskAddr(i))
     IN  /\ UNCHANGED <<_worlds, held, sched, LastSaved, savedLog, lastOp, busVars, move, cmd>>
         /\ IF r.ret = None
            THEN /\ tasks' = [tasks EXCEPT ![i].pc = "dropped", ![i].why = "world"]
                 /\ heap' = heap
            ELSE IF t.character_id \notin DOMAIN r.heap[r.ret].characters
            THEN /\ tasks' = [tasks EXCEPT ![i].pc = "dropped", ![i].why = "character"]
                 /\ heap' = Collect(r.heap, Roots')
            ELSE /\ tasks' = [tasks EXCEPT ![i].pc = "saving", ![i].world = r.ret]
                 /\ heap' = [r.heap EXCEPT ![r.ret].characters[t.character_id].narrative_memory =
                               new_memory(t.summary, @, t.chunk)]

\* await self._repo.save(world), and the task ends.
TaskSave(i) ==
  /\ i \in DOMAIN tasks
  /\ tasks[i].pc = "saving"
  /\ LET t == tasks[i]
         r == save(heap, t.world)
     IN  /\ _worlds' = r.worlds
         /\ LastSaved' = heap[t.world]
         /\ savedLog' = Log2(savedLog, [by |-> TaskAddr(i), noted |-> FALSE])
         /\ tasks' = [tasks EXCEPT ![i].pc = "done", ![i].saves = @ + 1, ![i].world = None]
         /\ sched' = [OtherWrite(sched, i) EXCEPT
                        ![i].result = r.heap[r.worlds[t.world_id]].characters[t.character_id].narrative_memory]
         /\ UNCHANGED <<held, lastOp, busVars, move, cmd>>
         /\ heap' = Collect(r.heap, Roots')

\* The stored worlds a run may start from: every character of the scenario,
\* the player with n lines of memory; or a world the player is not part of.
InitLens == {DEFAULT_THRESHOLD, 2 * DEFAULT_ITEMS_TO_SUMMARIZE}

StoredAtStart(n, chars) ==
  GameWorld(WORLD_ID,
    [c \in chars |-> Character("bridge", IF c = PLAYER_ID THEN EventLog(n) ELSE <<>>)],
    ScenarioLocations)

StartWorlds ==
  {StoredAtStart(n, CharacterIds) : n \in InitLens}
    \cup {StoredAtStart(0, CharacterIds \ {PLAYER_ID})}

InitMem ==
  \E start \in StartWorlds :
    /\ _worlds = [w \in WorldIds |-> w]
    /\ heap = [a \in Addrs |-> IF a = WORLD_ID THEN start ELSE Free]
    /\ held = [c \in Callers |-> None]
    /\ tasks = <<>>
    /\ sched = <<>>
    /\ LastSaved = start
    /\ savedLog = <<[by |-> "loader", noted |-> FALSE]>>
    /\ lastOp = [op |-> "init", caller |-> "none"]
    /\ _subscriptions = <<>>
    /\ pub = NoPub
    /\ move = NoMove
    /\ cmd = NoCmd

MemCallers == {"c1"}

\* The driver builds the demo world once, when it starts.
Setup(c) ==
  /\ lastOp.op = "init"
  /\ Load(c)

NextMem ==
  \/ \E c \in MemCallers : Setup(c)
  \/ \E c \in MemCallers : Get(c)
  \/ \E c \in MemCallers : AppendLine(c, PLAYER_ID)
  \/ \E c \in MemCallers : Save(c)
  \/ \E c \in MemCallers : Release(c)
  \/ Clear
  \/ \E c \in MemCallers, ch \in {PLAYER_ID}, threshold \in Thresholds, items \in ChunkSizes :
       Compress(c, ch, threshold, items)
  \/ \E i \in 1..(MaxTasks + 1) : TaskStart(i)
  \/ \E i \in 1..(MaxTasks + 1) : TaskSummarized(i)
  \/ \E i \in 1..(MaxTasks + 1) : TaskSummarizeFails(i)
  \/ \E i \in 1..(MaxTasks + 1) : TaskFetch(i)
  \/ \E i \in 1..(MaxTasks + 1) : TaskSave(i)

SpecMem == InitMem /\ [][NextMem]_vars

(***************************************************************************)
(* MoveCharacterHandler.execute(command, world), on the world the caller   *)
(* has in hand.                                                            *)
(***************************************************************************)
MoveCharacterCommand(character_id, target_location_id) ==
  [character_id |-> character_id, target_location_id |-> target_location_id]

CharacterMoved(character_id, from_location_id, to_location_id) ==
  [type |-> "CharacterMoved", character_id |-> character_id,
   from_location_id |-> from_location_id, to_location_id |-> to_location_id]

\* The order of world.characters: the order the scenario lists them in.
CharacterOrder == <<"player", "sophie">>

\* The lines the handler appends (the game time they start with is left out).
SawLeave(mover, from) == <<"saw leave", mover, from>>
Moved(from, target) == <<"moved", from, target>>
SawArrive(mover, target) == <<"saw arrive", mover, target>>

\* A check that also accepts a connection declared from the target only.
accessible_either_way(world, from, target) ==
  \/ from \in DOMAIN world.locations /\ target \in world.locations[from].connections
  \/ from \in world.locations[target].connections

\* current_location exists and lists the target among its connections.
accessible(world, from, target) ==
  /\ from \in DOMAIN world.locations
  /\ target \in world.locations[from].connections

\* Checks that leave out the two checks of the target.
validate_unchecked_target(world, command) ==
  IF command.character_id \notin DOMAIN world.characters
  THEN "character not found"
  ELSE IF world.characters[command.character_id].location_id = command.target_location_id
  THEN "noop"
  ELSE "ok"

\* The ValueErrors execute raises.
ValidationErrors == {"character not found", "target not found", "not accessible"}

\* Checks without the early return for a mover already at the target.
validate_without_early_return(world, command) ==
  IF command.character_id \notin DOMAIN world.characters
  THEN "character not found"
  ELSE IF command.target_location_id \notin DOMAIN world.locations
  THEN "target not found"
  ELSE IF ~accessible(world, world.characters[command.character_id].location_id,
                      command.target_location_id)
  THEN "not accessible"
  ELSE "ok"

\* The checks of execute, in their order: what it raises, "noop" for the
\* early return, "ok" when the move goes on.
validate(world, command) ==
  IF command.character_id \notin DOMAIN world.characters
  THEN "character not found"
  ELSE IF world.characters[command.character_id].location_id = command.target_location_id
  THEN "noop"
  ELSE IF command.target_location_id \notin DOMAIN world.locations
  THEN "target not found"
  ELSE IF ~accessible(world, world.characters[command.character_id].location_id,
                      command.target_location_id)
  THEN "not accessible"
  ELSE "ok"

\* A move every other character hears of, wherever it is.
moved_seen_everywhere(world, command) ==
  LET mover == command.character_id
      from == world.characters[mover].location_id
      target == command.target_location_id
  IN  [world EXCEPT !.characters =
         [ch \in DOMAIN world.characters |->
            IF ch = mover
            THEN [world.characters[ch] EXCEPT
                    !.location_id = target,
                    !.narrative_memory = Append(@, Moved(from, target))]
            ELSE IF world.characters[ch].location_id = target
            THEN [world.characters[ch] EXCEPT
                    !.narrative_memory = Append(@, SawArrive(mover, target))]
            ELSE [world.characters[ch] EXCEPT
                    !.narrative_memory = Append(@, SawLeave(mover, from))]]]

\* The world after steps 1 to 4 of execute: the observers at the source, the
\* mover, the observers at the destination.
moved(world, command) ==
  LET mover == command.character_id
      from == world.characters[mover].location_id
      target == command.target_location_id
  IN  [world EXCEPT !.characters =
         [ch \in DOMAIN world.characters |->
            IF ch = mover
            THEN [world.characters[ch] EXCEPT
                    !.location_id = target,
                    !.narrative_memory = Append(@, Moved(from, target))]
            ELSE IF world.characters[ch].location_id = from
            THEN [world.characters[ch] EXCEPT
                    !.narrative_memory = Append(@, SawLeave(mover, from))]
            ELSE IF world.characters[ch].location_id = target
            THEN [world.characters[ch] EXCEPT
                    !.narrative_memory = Append(@, SawArrive(mover, target))]
            ELSE world.characters[ch]]]

\* A list that holds the mover only.
characters_whose_memory_changed_mover_only(world, command) ==
  <<command.character_id>>

\* characters_whose_memory_changed, in the order execute fills it.
characters_whose_memory_changed(world, command) ==
  LET mover == command.character_id
      from == world.characters[mover].location_id
      target == command.target_location_id
      AtSource(ch) == ch \in DOMAIN world.characters /\ ch # mover
                        /\ world.characters[ch].location_id = from
      AtTarget(ch) == ch \in DOMAIN world.characters /\ ch # mover
                        /\ world.characters[ch].location_id = target
  IN  SelectSeq(CharacterOrder, AtSource) \o <<mover>> \o SelectSeq(CharacterOrder, AtTarget)

\* The loop over characters_whose_memory_changed: one call of
\* compress_memory_if_needed each, with the default arguments. st is the
\* tasks with their history.
RECURSIVE compress_each(_, _, _, _)
compress_each(st, c, world, changed) ==
  IF changed = <<>> THEN st
  ELSE LET ts == compress_memory_if_needed(st.tasks, world, Head(changed),
                   DEFAULT_THRESHOLD, DEFAULT_ITEMS_TO_SUMMARIZE)
           next == [tasks |-> ts,
                    sched |-> IF Len(ts) > Len(st.tasks)
                              THEN Append(st.sched, Scheduling(c, world, Head(changed),
                                                               DEFAULT_ITEMS_TO_SUMMARIZE))
                              ELSE st.sched]
       IN  compress_each(next, c, world, Tail(changed))

MoveResult(c, command, from, connections, outcome) ==
  [op |-> "move", caller |-> c, command |-> command, from |-> from,
   connections |-> connections, outcome |-> outcome]

\* execute up to its await: the checks, the changes to the world in hand,
\* and publish up to its own await. A check that fails raises and a move to
\* the mover's own location returns, both with the world as it was.
MoveBegin(c, command) ==
  /\ move.pc = "idle"
  /\ move.count < MaxMoves
  /\ held[c] # None
  /\ pub.pc # "awaiting"
  /\ \A i \in DOMAIN pub.runs : pub.runs[i].status # "running"
  /\ LET world == heap[held[c]]
         v == validate(world, command)
         from == IF command.character_id \in DOMAIN world.characters
                 THEN world.characters[command.character_id].location_id ELSE None
         connections == IF from \in DOMAIN world.locations
                        THEN world.locations[from].connections ELSE {}
     IN  IF v = "ok"
         THEN /\ heap' = [heap EXCEPT ![held[c]] = moved(world, command)]
              /\ pub' = publish(_subscriptions, CharacterMoved(command.character_id, from,
                                                               command.target_location_id))
              /\ move' = [pc |-> "publishing", caller |-> c, command |-> command, from |-> from,
                          changed |-> characters_whose_memory_changed(world, command),
                          count |-> move.count + 1]
              /\ lastOp' = MoveResult(c, command, from, connections, "pending")
              /\ UNCHANGED <<_worlds, held, tasks, sched, LastSaved, savedLog, _subscriptions, cmd>>
         ELSE /\ lastOp' = MoveResult(c, command, from, connections, v)
              /\ UNCHANGED <<_worlds, heap, held, tasks, sched, LastSaved, savedLog, busVars, move, cmd>>

\* execute after its await: publish has raised and the exception leaves
\* execute, or it has returned and execute runs the compression checks and
\* returns the world.
MoveEnd(c) ==
  /\ move.pc = "publishing"
  /\ move.caller = c
  /\ pub.pc \in {"returned", "raised"}
  /\ LET world == heap[held[c]]
         connections == IF move.from \in DOMAIN world.locations
                        THEN world.locations[move.from].connections ELSE {}
         st == IF pub.pc = "raised" THEN [tasks |-> tasks, sched |-> sched]
               ELSE compress_each([tasks |-> tasks, sched |-> sched], c, world, move.changed)
     IN  /\ Len(st.tasks) <= MaxTasks
         /\ tasks' = st.tasks
         /\ sched' = st.sched
         /\ lastOp' = MoveResult(c, move.command, move.from, connections,
                                 IF pub.pc = "raised" THEN "publish raised" ELSE "ok")
         /\ move' = [NoMove EXCEPT !.count = move.count]
         /\ UNCHANGED <<_worlds, heap, held, LastSaved, savedLog, busVars, cmd>>

\* The commands a caller may issue: known and unknown characters and targets.
MoveCommands ==
  {MoveCharacterCommand(ch, l) : ch \in CharacterIds \cup {"ghost"},
                                 l \in LocationIds \cup {"nowhere"}}

\* The subscriptions made when the application starts.
MoveSubscriptions == {<<"DomainEvent", "h1">>, <<"CharacterMoved", "h2">>}

\* The application subscribes each of its handlers once, before the first command.
StartupSubscribe(event_type, handler) ==
  /\ lastOp.op = "init"
  /\ \A i \in DOMAIN _subscriptions : _subscriptions[i].type # event_type
  /\ Subscribe(event_type, handler)

InitMove == InitMem

\* The caller is the game loop: it takes its next step when the command it
\* has issued has ended.
NextMove ==
  \/ \E s \in MoveSubscriptions : StartupSubscribe(s[1], s[2])
  \/ \E c \in MemCallers : move.pc = "idle" /\ Get(c)
  \/ \E c \in MemCallers : move.pc = "idle" /\ Save(c)
  \/ \E c \in MemCallers : move.pc = "idle" /\ Release(c)
  \/ \E c \in MemCallers, command \in MoveCommands : MoveBegin(c, command)
  \/ \E i \in 1..(MaxSubs + 1) : HandlerReturn(i)
  \/ \E i \in 1..(MaxSubs + 1) : HandlerRaise(i)
  \/ PublishResolve
  \/ \E c \in MemCallers : MoveEnd(c)
  \/ \E i \in 1..(MaxTasks + 1) : TaskStart(i)
  \/ \E i \in 1..(MaxTasks + 1) : TaskSummarized(i)
  \/ \E i \in 1..(MaxTasks + 1) : TaskSummarizeFails(i)
  \/ \E i \in 1..(MaxTasks + 1) : TaskFetch(i)
  \/ \E i \in 1..(MaxTasks + 1) : TaskSave(i)

SpecMove == InitMove /\ [][NextMove]_vars

(***************************************************************************)
(* ExamineObjectHandler (application/use_cases/examine_object.py). The     *)
(* handler fetches the world from the repository itself, marks the clues   *)
(* of the object, saves, publishes one event per new fact, one after the   *)
(* other, and hands the world to its caller.                               *)
(***************************************************************************)
MaxCommands == 2

ExamineObjectCommand(player_id, object_id, location_id) ==
  [kind |-> "examine", world_id |-> WORLD_ID, player_id |-> player_id,
   object_id |-> object_id, location_id |-> location_id]

FactDiscovered(character_id, fact_id, location_id) ==
  [type |-> "FactDiscovered", character_id |-> character_id, fact_id |-> fact_id,
   location_id |-> location_id]

\* A line a handler appends to a narrative memory: its wording, the name in
\* it and the text it quotes (the game time it starts with is left out; a
\* clue's description is named by its fact).
Line(wording, name, text) == <<wording, name, text>>

\* next((obj for obj in objects if obj.id == object_id), None), as an index
\* into objects; 0 stands for None.
target_object(objects, object_id) ==
  IF \E i \in DOMAIN objects : objects[i].id = object_id
  THEN CHOOSE i \in DOMAIN objects :
         objects[i].id = object_id /\ \A j \in 1..(i - 1) : objects[j].id # object_id
  ELSE 0

\* The checks of execute, in order; each raises ValueError.
examine_checks(world, command) ==
  IF world = NoWorld THEN "world not found"
  ELSE IF command.player_id \notin DOMAIN world.characters THEN "player not found"
  ELSE IF world.characters[command.player_id].location_id # command.location_id
    THEN "wrong location"
  ELSE IF command.location_id \notin DOMAIN world.locations THEN "location not found"
  ELSE IF target_object(world.locations[command.location_id].objects, command.object_id) = 0
    THEN "object not found"
  ELSE "ok"

Range(seq) == {seq[i] : i \in DOMAIN seq}

Map(seq, Op(_)) == [i \in DOMAIN seq |-> Op(seq[i])]

\* clue.is_found = True
Found(clue) == [clue EXCEPT !.is_found = TRUE]

\* A discovery that returns every clue of the object, found before or not.
discovered_clues_all(clues) ==
  Map(clues, Found)

\* discovered_clues after the loop: the clues that were not found, in order,
\* as the objects of the world, which are now marked.
discovered_clues(clues) ==
  Map(SelectSeq(clues, LAMBDA clue : ~clue.is_found), Found)

\* A grant that keeps the entry the player already has for a fact.
grant_if_unknown(knowledge, new_facts_for_player) ==
  [f \in DOMAIN knowledge \cup Range(new_facts_for_player) |->
     IF f \in DOMAIN knowledge THEN knowledge[f] ELSE KnowledgeEntry(f, "1.0")]

\* player.knowledge[fact_id] = KnowledgeEntry(fact_id=fact_id, certainty=1.0),
\* for each new fact.
grant(knowledge, new_facts_for_player) ==
  [f \in DOMAIN knowledge \cup Range(new_facts_for_player) |->
     IF f \in Range(new_facts_for_player) THEN KnowledgeEntry(f, "1.0") ELSE knowledge[f]]

\* The world in hand when execute reaches its save: every clue of the object
\* marked, the lines appended, the knowledge granted.
examined(world, command) ==
  LET objects == world.locations[command.location_id].objects
      t == target_object(objects, command.object_id)
      clues == objects[t].clues
      discovered == discovered_clues(clues)
      new_facts == Map(discovered, LAMBDA clue : clue.fact_id)
      LineOf(clue) == Line("discovered", command.object_id, clue.fact_id)
      lines == IF discovered = <<>> THEN <<Line("found nothing new", command.object_id, None)>>
               ELSE Map(discovered, LineOf)
      player == world.characters[command.player_id]
  IN  [world |-> [world EXCEPT
                    !.locations[command.location_id].objects[t].clues = Map(clues, Found),
                    !.characters[command.player_id].narrative_memory = player.narrative_memory \o lines,
                    !.characters[command.player_id].knowledge =
                       IF new_facts = <<>> THEN player.knowledge
                       ELSE grant(player.knowledge, new_facts)],
       discovered_clues |-> discovered,
       new_facts_for_player |-> new_facts]

\* History of an examine: the world it fetched, what it returned, the facts
\* whose event it published and the world it passed to save.
ExamineResult(c, command, before, clues, published, saved, outcome) ==
  [op |-> "examine", caller |-> c, command |-> command, before |-> before,
   clues |-> clues, published |-> published, saved |-> saved, outcome |-> outcome]

\* execute up to its first await that suspends: the fetch, the checks, the
\* discovery, the save and the first publish; with nothing new, the save,
\* the compression check and the return.
ExamineBegin(c, command) ==
  /\ cmd.pc = "idle"
  /\ move.pc = "idle"
  /\ cmd.count < MaxCommands
  /\ held[c] = None
  /\ pub.pc # "awaiting"
  /\ \A i \in DOMAIN pub.runs : pub.runs[i].status # "running"
  /\ LET r == get_by_id(heap, command.world_id, c)
         before == IF r.ret = None THEN NoWorld ELSE r.heap[r.ret]
         v == examine_checks(before, command)
     IN  IF v # "ok"
         THEN /\ lastOp' = ExamineResult(c, command, before, <<>>, <<>>, NoWorld, v)
              /\ UNCHANGED <<_worlds, heap, held, tasks, sched, LastSaved, savedLog, busVars,
                             move, cmd>>
         ELSE LET e == examined(before, command)
                  s == save([r.heap EXCEPT ![r.ret] = e.world], r.ret)
                  new == e.new_facts_for_player
                  memory == e.world.characters[command.player_id].narrative_memory
                  written == [tasks |-> tasks, sched |-> OtherWrite(sched, 0)]
                  checked == compress_each(written, c, e.world, <<command.player_id>>)
                  st == IF new # <<>> THEN written
                        ELSE IF Len(checked.tasks) = Len(tasks) THEN checked
                        ELSE [checked EXCEPT !.sched[Len(checked.sched)].stored = memory,
                                             !.sched[Len(checked.sched)].appended = TRUE]
              IN  /\ Len(st.tasks) <= MaxTasks
                  /\ _worlds' = s.worlds
                  /\ held' = [held EXCEPT ![c] = r.ret]
                  /\ LastSaved' = e.world
                  /\ savedLog' = Log2(savedLog, [by |-> c, noted |-> HasNote(e.world, c)])
                  /\ tasks' = st.tasks
                  /\ sched' = st.sched
                  /\ pub' = IF new = <<>> THEN pub
                            ELSE publish(_subscriptions,
                                         FactDiscovered(command.player_id, Head(new),
                                                        command.location_id))
                  /\ cmd' = IF new = <<>> THEN [cmd EXCEPT !.count = @ + 1]
                            ELSE [pc |-> "publishing", caller |-> c, command |-> command,
                                  locals |-> [before |-> before,
                                              discovered_clues |-> e.discovered_clues,
                                              saved |-> s.heap[s.worlds[command.world_id]],
                                              published |-> <<Head(new)>>,
                                              pending |-> Tail(new)],
                                  count |-> cmd.count + 1]
                  /\ lastOp' = ExamineResult(c, command, before, e.discovered_clues,
                                             IF new = <<>> THEN <<>> ELSE <<Head(new)>>,
                                             s.heap[s.worlds[command.world_id]],
                                             IF new = <<>> THEN "ok" ELSE "pending")
                  /\ UNCHANGED <<_subscriptions, move>>
                  /\ heap' = Collect(s.heap, Roots')

\* execute after a publish: the publish has raised and the exception leaves
\* execute; or it has returned and execute publishes the next event, or,
\* after the last, runs the compression check and returns.
ExamineNext(c) ==
  /\ cmd.pc = "publishing"
  /\ cmd.command.kind = "examine"
  /\ cmd.caller = c
  /\ pub.pc \in {"returned", "raised"}
  /\ LET l == cmd.locals
         world == heap[held[c]]
         Result(published, outcome) ==
           ExamineResult(c, cmd.command, l.before, l.discovered_clues, published, l.saved,
                         outcome)
     IN  IF pub.pc = "raised"
         THEN /\ lastOp' = Result(l.published, "publish raised")
              /\ cmd' = [NoCmd EXCEPT !.count = cmd.count]
              /\ held' = [held EXCEPT ![c] = None]
              /\ UNCHANGED <<_worlds, tasks, sched, LastSaved, savedLog, busVars, move>>
              /\ heap' = Collect(heap, Roots')
         ELSE IF l.pending # <<>>
         THEN /\ pub' = publish(_subscriptions,
                                FactDiscovered(cmd.command.player_id, Head(l.pending),
                                               cmd.command.location_id))
              /\ cmd' = [cmd EXCEPT !.locals.published = Append(@, Head(l.pending)),
                                    !.locals.pending = Tail(@)]
              /\ lastOp' = Result(Append(l.published, Head(l.pending)), "pending")
              /\ UNCHANGED <<_worlds, heap, held, tasks, sched, LastSaved, savedLog,
                             _subscriptions, move>>
         ELSE LET st == compress_each([tasks |-> tasks, sched |-> sched], c, world,
                                      <<cmd.command.player_id>>)
              IN  /\ Len(st.tasks) <= MaxTasks
                  /\ tasks' = st.tasks
                  /\ sched' = st.sched
                  /\ lastOp' = Result(l.published, "ok")
                  /\ cmd' = [NoCmd EXCEPT !.count = cmd.count]
                  /\ UNCHANGED <<_worlds, heap, held, LastSaved, savedLog, busVars, move>>

\* The scene of the investigation: on the bridge a desk with two clues and a
\* lamp with none. The player may have found either clue already, may hold a
\* belief about the first fact, and has n lines of memory.
Beliefs == {EmptyDict, [f \in {"f1"} |-> KnowledgeEntry("f1", "0.5")]}

Scene(found1, found2, knowledge, n) ==
  [StoredAtStart(n, CharacterIds) EXCEPT
     !.locations["bridge"].objects =
        <<GameObject("desk", <<Clue("f1", found1), Clue("f2", found2)>>),
          GameObject("lamp", <<>>)>>,
     !.characters[PLAYER_ID].knowledge = knowledge]

\* The state when the application has stored the world it starts from.
StartsFrom(start) ==
  /\ _worlds = [w \in WorldIds |-> IF start = NoWorld THEN None ELSE w]
  /\ heap = [a \in Addrs |-> IF a = WORLD_ID /\ start # NoWorld THEN start ELSE Free]
  /\ held = [c \in Callers |-> None]
  /\ tasks = <<>>
  /\ sched = <<>>
  /\ LastSaved = start
  /\ savedLog = IF start = NoWorld THEN <<>> ELSE <<[by |-> "loader", noted |-> FALSE]>>
  /\ lastOp = [op |-> "init", caller |-> "none"]
  /\ _subscriptions = <<>>
  /\ pub = NoPub
  /\ move = NoMove
  /\ cmd = NoCmd

\* The store is empty or holds a scene.
InitExamine ==
  \/ StartsFrom(NoWorld)
  \/ \E found1 \in BOOLEAN, found2 \in BOOLEAN, k \in Beliefs, n \in {0, DEFAULT_THRESHOLD} :
       StartsFrom(Scene(found1, found2, k, n))

\* The application subscribes a handler to every event and one to the
\* discoveries; the caller examines as a known or unknown player, a known or
\* unknown object, at the player's location or elsewhere.
NextExamine ==
  \/ \E s \in {<<"DomainEvent", "h1">>, <<"FactDiscovered", "h2">>} :
       StartupSubscribe(s[1], s[2])
  \/ \E c \in MemCallers, p \in {PLAYER_ID, "ghost"}, o \in {"desk", "lamp", "safe"},
        l \in {"bridge", "deck"} :
       ExamineBegin(c, ExamineObjectCommand(p, o, l))
  \/ \E c \in MemCallers : ExamineNext(c)
  \/ \E c \in MemCallers : cmd.pc = "idle" /\ Release(c)
  \/ \E i \in 1..(MaxSubs + 1) : HandlerReturn(i)
  \/ \E i \in 1..(MaxSubs + 1) : HandlerRaise(i)
  \/ PublishResolve
  \/ \E i \in 1..(MaxTasks + 1) : TaskStart(i)
  \/ \E i \in 1..(MaxTasks + 1) : TaskSummarized(i)
  \/ \E i \in 1..(MaxTasks + 1) : TaskSummarizeFails(i)
  \/ \E i \in 1..(MaxTasks + 1) : TaskFetch(i)
  \/ \E i \in 1..(MaxTasks + 1) : TaskSave(i)

SpecExamine == InitExamine /\ [][NextExamine]_vars

\* A session whose stored memories are within the threshold when the first
\* command begins (the player has DEFAULT_THRESHOLD lines, Sophie none), and
\* in which the caller moves characters.
InitTurns == StartsFrom(StoredAtStart(DEFAULT_THRESHOLD, CharacterIds))

SpecTurns == InitTurns /\ [][NextMove]_vars

(***************************************************************************)
(* TalkToCharacterHandler (application/use_cases/talk_to_character.py).    *)
(* The handler fetches the world, checks the two characters, asks the      *)
(* language model for a reply and writes lines and knowledge into the      *)
(* world in hand. It then reads world.dialogue_history (line 97), an       *)
(* attribute GameWorld does not declare: the read raises AttributeError in *)
(* every world, so the save, the publish and the return of lines 105-119   *)
(* are never reached. The handler holds no dialogue session.               *)
(***************************************************************************)
TalkToCharacterCommand(speaker_id, listener_id, message) ==
  [kind |-> "talk", world_id |-> WORLD_ID, speaker_id |-> speaker_id,
   listener_id |-> listener_id, message |-> message, session_id |-> None]

DialogueGenerationResponse(text, newly_revealed_facts) ==
  [text |-> text, newly_revealed_facts |-> newly_revealed_facts]

\* No reply has been received.
NoResponse == DialogueGenerationResponse(None, <<>>)

\* Checks that let a character talk to one in another location.
talk_checks_anywhere(world, command) ==
  IF world = NoWorld THEN "world not found"
  ELSE IF command.speaker_id \notin DOMAIN world.characters THEN "speaker not found"
  ELSE IF command.listener_id \notin DOMAIN world.characters THEN "listener not found"
  ELSE "ok"

\* The checks of execute, in order; each raises ValueError.
talk_checks(world, command) ==
  IF world = NoWorld THEN "world not found"
  ELSE IF command.speaker_id \notin DOMAIN world.characters THEN "speaker not found"
  ELSE IF command.listener_id \notin DOMAIN world.characters THEN "listener not found"
  ELSE IF world.characters[command.speaker_id].location_id
            # world.characters[command.listener_id].location_id
    THEN "not in the same location"
  ELSE "ok"

\* world.facts.get(fact_id).content if world.facts.get(fact_id) else "a new fact"
fact_content(world, fact_id) ==
  IF fact_id \in world.facts THEN fact_id ELSE "a new fact"

\* A loop that grants every revealed fact, known or not.
learn_always(world, command, revealed) ==
  LET LineOf(f) ==
        Line("I learned something new from", command.listener_id, fact_content(world, f))
  IN  [world EXCEPT
         !.characters[command.speaker_id].knowledge = grant(@, revealed),
         !.characters[command.speaker_id].narrative_memory = @ \o Map(revealed, LineOf)]

\* for fact_id in response.newly_revealed_facts: a fact not in the speaker's
\* knowledge is added with certainty 1.0 and a line is appended.
RECURSIVE learn(_, _, _)
learn(world, command, revealed) ==
  IF revealed = <<>> THEN world
  ELSE LET fact_id == Head(revealed)
           speaker == world.characters[command.speaker_id]
           next == IF fact_id \notin DOMAIN speaker.knowledge
                   THEN [world EXCEPT
                           !.characters[command.speaker_id].knowledge =
                              grant(speaker.knowledge, <<fact_id>>),
                           !.characters[command.speaker_id].narrative_memory =
                              Append(@, Line("I learned something new from",
                                             command.listener_id,
                                             fact_content(world, fact_id)))]
                   ELSE world
       IN  learn(next, command, Tail(revealed))

\* As talked, but the newest lines are put first.
talked_newest_first(world, command, response) ==
  LET said == Line("I said to", command.listener_id, command.message)
      heard == Line("said to me", command.speaker_id, command.message)
      replied == Line("I replied to", command.speaker_id, response.text)
      answered == Line("replied to me", command.listener_id, response.text)
  IN  [world EXCEPT
         !.characters[command.speaker_id].narrative_memory = <<answered, said>> \o @,
         !.characters[command.listener_id].narrative_memory = <<replied, heard>> \o @]

\* Lines 78-81: the four appends, in the order of the code.
talked(world, command, response) ==
  LET w1 == [world EXCEPT !.characters[command.speaker_id].narrative_memory =
                            Append(@, Line("I said to", command.listener_id, command.message))]
      w2 == [w1 EXCEPT !.characters[command.listener_id].narrative_memory =
                         Append(@, Line("said to me", command.speaker_id, command.message))]
      w3 == [w2 EXCEPT !.characters[command.listener_id].narrative_memory =
                         Append(@, Line("I replied to", command.speaker_id, response.text))]
  IN  [w3 EXCEPT !.characters[command.speaker_id].narrative_memory =
                   Append(@, Line("replied to me", command.listener_id, response.text))]

\* History of a talk: the world it fetched, the reply, the number of
\* generation calls, the world in hand when execute ended, and how it ended.
TalkResult(c, command, before, response, calls, world, outcome) ==
  [op |-> "talk", caller |-> c, command |-> command, before |-> before,
   response |-> response, calls |-> calls, world |-> world, outcome |-> outcome]

\* As TalkBegin, but the speaker's line is written before the reply is
\* awaited.
TalkBeginSayingFirst(c, command) ==
  /\ cmd.pc = "idle"
  /\ move.pc = "idle"
  /\ held[c] = None
  /\ LET r == get_by_id(heap, command.world_id, c)
         before == IF r.ret = None THEN NoWorld ELSE r.heap[r.ret]
         v == talk_checks(before, command)
         outcome == IF v # "ok" THEN v
                    ELSE IF command.message = None THEN "ValidationError"
                    ELSE "pending"
     IN  /\ lastOp' = TalkResult(c, command, before, NoResponse, 0, NoWorld, outcome)
         /\ IF outcome # "pending"
            THEN UNCHANGED <<_worlds, heap, held, tasks, sched, LastSaved, savedLog, busVars,
                             move, cmd>>
            ELSE /\ held' = [held EXCEPT ![c] = r.ret]
                 /\ cmd' = [pc |-> "generating", caller |-> c, command |-> command,
                            locals |-> [before |-> before], count |-> cmd.count]
                 /\ UNCHANGED <<_worlds, tasks, sched, LastSaved, savedLog, busVars, move>>
                 /\ heap' = Collect([r.heap EXCEPT
                                       ![r.ret].characters[command.speaker_id].narrative_memory =
                                          Append(@, Line("I said to", command.listener_id,
                                                         command.message))],
                                    Roots')

\* execute up to the await of the reply: the fetch, the checks, and the
\* context, whose current_topic must be a string.
TalkBegin(c, command) ==
  /\ cmd.pc = "idle"
  /\ move.pc = "idle"
  /\ held[c] = None
  /\ LET r == get_by_id(heap, command.world_id, c)
         before == IF r.ret = None THEN NoWorld ELSE r.heap[r.ret]
         v == talk_checks(before, command)
         outcome == IF v # "ok" THEN v
                    ELSE IF command.message = None THEN "ValidationError"
                    ELSE "pending"
     IN  /\ lastOp' = TalkResult(c, command, before, NoResponse, 0, NoWorld, outcome)
         /\ IF outcome # "pending"
            THEN UNCHANGED <<_worlds, heap, held, tasks, sched, LastSaved, savedLog, busVars,
                             move, cmd>>
            ELSE /\ held' = [held EXCEPT ![c] = r.ret]
                 /\ cmd' = [pc |-> "generating", caller |-> c, command |-> command,
                            locals |-> [before |-> before], count |-> cmd.count]
                 /\ UNCHANGED <<_worlds, tasks, sched, LastSaved, savedLog, busVars, move>>
                 /\ heap' = Collect(r.heap, Roots')

\* execute after the reply: the lines, the knowledge, and the read of
\* world.dialogue_history, which raises; the world in hand is dropped.
TalkReply(c, response) ==
  /\ cmd.pc = "generating"
  /\ cmd.caller = c
  /\ LET world == learn(talked(heap[held[c]], cmd.command, response), cmd.command,
                        response.newly_revealed_facts)
     IN  /\ "dialogue_history" \notin DOMAIN world
         /\ lastOp' = TalkResult(c, cmd.command, cmd.locals.before, response, 1, world,
                                 "AttributeError")
         /\ held' = [held EXCEPT ![c] = None]
         /\ cmd' = [NoCmd EXCEPT !.count = cmd.count]
         /\ UNCHANGED <<_worlds, tasks, sched, LastSaved, savedLog, busVars, move>>
         /\ heap' = Collect(heap, Roots')

\* The language model raises: the exception leaves execute.
TalkReplyFails(c) ==
  /\ cmd.pc = "generating"
  /\ cmd.caller = c
  /\ lastOp' = TalkResult(c, cmd.command, cmd.locals.before, NoResponse, 1, NoWorld,
                          "generation failed")
  /\ held' = [held EXCEPT ![c] = None]
  /\ cmd' = [NoCmd EXCEPT !.count = cmd.count]
  /\ UNCHANGED <<_worlds, tasks, sched, LastSaved, savedLog, busVars, move>>
  /\ heap' = Collect(heap, Roots')

\* The scene of a conversation: the listener with the player or on the
\* deck, the player with or without a belief about the first fact.
Meeting(location_id, knowledge, n) ==
  [StoredAtStart(n, CharacterIds) EXCEPT
     !.facts = {"f1", "f2"},
     !.characters["sophie"].location_id = location_id,
     !.characters[PLAYER_ID].knowledge = knowledge]

\* The store is empty or holds a meeting.
InitTalk ==
  \/ StartsFrom(NoWorld)
  \/ \E l \in {"bridge", "deck"}, k \in Beliefs, n \in {0, DEFAULT_THRESHOLD} :
       StartsFrom(Meeting(l, k, n))

\* The caller talks as and to known and unknown characters, with or without
\* a message; the language model's reply reveals no fact, a fact once or
\* twice, two facts, or a fact the scenario does not list.
NextTalk ==
  \/ \E c \in MemCallers, sp \in CharacterIds \cup {"ghost"}, li \in CharacterIds \cup {"ghost"},
        m \in {None, "hello"} :
       TalkBegin(c, TalkToCharacterCommand(sp, li, m))
  \/ \E c \in MemCallers,
        facts \in {<<>>, <<"f1">>, <<"f1", "f1">>, <<"f2", "f1">>, <<"f3">>} :
       TalkReply(c, DialogueGenerationResponse("reply", facts))
  \/ \E c \in MemCallers : TalkReplyFails(c)

SpecTalk == InitTalk /\ [][NextTalk]_vars

(***************************************************************************)
(* EndDialogueHandler.execute(command, world)                              *)
(* (application/use_cases/end_dialogue.py), on the world the caller has in *)
(* hand. For a session with history it calls                               *)
(* self._memory_service.summarize_and_add_to_memory, a method MemoryService *)
(* (application/services/memory_service.py) does not define: the attribute *)
(* lookup raises AttributeError before anything is awaited.                *)
(***************************************************************************)
EndDialogueCommand(session_id) ==
  [kind |-> "end", world_id |-> WORLD_ID, session_id |-> session_id]

\* The methods of MemoryService.
MemoryServiceMethods == {"_summarize_chunk", "compress_memory_if_needed"}

\* world.active_dialogues.get(session_id) is a session, and an active one.
ActiveSession(world, session_id) ==
  /\ session_id \in DOMAIN world.active_dialogues
  /\ world.active_dialogues[session_id].is_active

\* The participants of a session that are characters of the world, in order.
Present(world, session) ==
  LET IsCharacter(id) == id \in DOMAIN world.characters
  IN  SelectSeq(session.participants, IsCharacter)

\* An execute that raises for a session it does not find.
end_dialogue_strict(world, command) ==
  IF ~ActiveSession(world, command.session_id)
  THEN [world |-> world, calls |-> 0, outcome |-> "session not found"]
  ELSE [world |-> [world EXCEPT !.active_dialogues =
                                   [id \in DOMAIN @ \ {command.session_id} |-> @[id]]],
        calls |-> 0, outcome |-> "returned"]

\* execute: the world in hand when it ends, the number of summarization
\* calls it made, and how it ended.
end_dialogue(world, command) ==
  IF ~ActiveSession(world, command.session_id)
  THEN [world |-> world, calls |-> 0, outcome |-> "returned"]
  ELSE LET session == world.active_dialogues[command.session_id]
       IN  IF session.history # <<>> /\ Present(world, session) # <<>>
           THEN IF \E i \in DOMAIN session.history :
                     session.history[i].speaker_id \notin DOMAIN world.characters
                THEN [world |-> world, calls |-> 0, outcome |-> "KeyError"]
                ELSE IF "summarize_and_add_to_memory" \notin MemoryServiceMethods
                THEN [world |-> world, calls |-> 0, outcome |-> "AttributeError"]
                ELSE [world |-> world, calls |-> 1, outcome |-> "summarizing"]
           ELSE \* session.is_active = False; del world.active_dialogues[session_id]
                [world |-> [world EXCEPT !.active_dialogues =
                                           [id \in DOMAIN @ \ {command.session_id} |-> @[id]]],
                 calls |-> 0, outcome |-> "returned"]

\* world = await end_dialogue_handler.execute(command, world)
EndDialogue(c, command) ==
  /\ cmd.pc = "idle"
  /\ move.pc = "idle"
  /\ cmd.count < MaxCommands
  /\ held[c] # None
  /\ LET r == end_dialogue(heap[held[c]], command)
     IN  /\ heap' = [heap EXCEPT ![held[c]] = r.world]
         /\ lastOp' = [op |-> "end", caller |-> c, command |-> command,
                       before |-> heap[held[c]], calls |-> r.calls, outcome |-> r.outcome]
         /\ cmd' = [cmd EXCEPT !.count = @ + 1]
         /\ UNCHANGED <<_worlds, held, tasks, sched, LastSaved, savedLog, busVars, move>>

\* The sessions a stored world may hold: one just opened, one with history,
\* one already inactive, one between characters the world does not have.
Sessions ==
  LET history == <<DialogueReplica(PLAYER_ID, "hello"), DialogueReplica("sophie", "reply")>>
  IN  [id \in {"s1", "s2", "s3", "s4"} |->
         CASE id = "s1" -> DialogueSession(<<PLAYER_ID, "sophie">>, <<>>, TRUE)
           [] id = "s2" -> DialogueSession(<<PLAYER_ID, "sophie">>, history, TRUE)
           [] id = "s3" -> DialogueSession(<<PLAYER_ID, "sophie">>, history, FALSE)
           [] id = "s4" -> DialogueSession(<<"ghost", "phantom">>, history, TRUE)]

\* The store holds a world with some of the sessions.
InitDialogue ==
  \E ids \in SUBSET DOMAIN Sessions :
    StartsFrom([StoredAtStart(0, CharacterIds) EXCEPT
                  !.active_dialogues = [id \in ids |-> Sessions[id]]])

\* The caller ends the sessions of the world in hand and one it never had.
NextDialogue ==
  \/ \E c \in MemCallers : Get(c)
  \/ \E c \in MemCallers, id \in DOMAIN Sessions \cup {"s9"} :
       EndDialogue(c, EndDialogueCommand(id))
  \/ \E c \in MemCallers : Save(c)
  \/ \E c \in MemCallers : Release(c)

SpecDialogue == InitDialogue /\ [][NextDialogue]_vars

(***************************************************************************)
(* AccuseCharacterHandler.execute(command)                                 *)
(* (application/use_cases/accuse_character.py): the verdict on the world   *)
(* the handler fetches; nothing is written.                                *)
(***************************************************************************)
AccuseCharacterCommand(player_id, accused_character_id) ==
  [kind |-> "accuse", world_id |-> WORLD_ID, player_id |-> player_id,
   accused_character_id |-> accused_character_id]

AccusationResult(is_correct, message) ==
  [outcome |-> "returned", is_correct |-> is_correct, message |-> message]

\* raise ValueError(...): execute returns no result.
Raised(message) ==
  [outcome |-> "raised", is_correct |-> FALSE, message |-> message]

\* A verdict that does not ask for the evidence.
accuse_without_evidence(world, command) ==
  IF world = NoWorld THEN Raised("world not found")
  ELSE IF command.player_id \notin DOMAIN world.characters THEN Raised("player not found")
  ELSE IF command.accused_character_id \notin DOMAIN world.characters
    THEN Raised("accused not found")
  ELSE IF world.solution = NoSolution THEN AccusationResult(FALSE, "no solution")
  ELSE IF world.solution.killer_id # command.accused_character_id
    THEN AccusationResult(FALSE, "wrong")
  ELSE AccusationResult(TRUE, "win")

\* A verdict that looks for the solution before it looks for the accused.
accuse_solution_first(world, command) ==
  IF world = NoWorld THEN Raised("world not found")
  ELSE IF command.player_id \notin DOMAIN world.characters THEN Raised("player not found")
  ELSE IF world.solution = NoSolution THEN AccusationResult(FALSE, "no solution")
  ELSE IF command.accused_character_id \notin DOMAIN world.characters
    THEN Raised("accused not found")
  ELSE IF world.solution.killer_id # command.accused_character_id
    THEN AccusationResult(FALSE, "wrong")
  ELSE IF ~(Range(world.solution.required_fact_ids)
              \subseteq DOMAIN world.characters[command.player_id].knowledge)
    THEN AccusationResult(FALSE, "lack the evidence")
  ELSE AccusationResult(TRUE, "win")

\* execute after the fetch: the checks, in order, and the verdict.
accuse(world, command) ==
  IF world = NoWorld THEN Raised("world not found")
  ELSE IF command.player_id \notin DOMAIN world.characters THEN Raised("player not found")
  ELSE IF command.accused_character_id \notin DOMAIN world.characters
    THEN Raised("accused not found")
  ELSE IF world.solution = NoSolution THEN AccusationResult(FALSE, "no solution")
  ELSE IF world.solution.killer_id # command.accused_character_id
    THEN AccusationResult(FALSE, "wrong")
  ELSE IF ~(Range(world.solution.required_fact_ids)
              \subseteq DOMAIN world.characters[command.player_id].knowledge)
    THEN AccusationResult(FALSE, "lack the evidence")
  ELSE AccusationResult(TRUE, "win")

\* A handler that closes the case in the store when the player wins.
Accuse_closing_case(c, command) ==
  /\ cmd.pc = "idle"
  /\ move.pc = "idle"
  /\ LET r == get_by_id(heap, command.world_id, c)
         before == IF r.ret = None THEN NoWorld ELSE r.heap[r.ret]
         result == accuse(before, command)
     IN  /\ lastOp' = [op |-> "accuse", caller |-> c, command |-> command, before |-> before,
                       result |-> result]
         /\ heap' = IF result.is_correct
                    THEN [heap EXCEPT ![_worlds[command.world_id]].solution = NoSolution]
                    ELSE heap
  /\ UNCHANGED <<_worlds, held, tasks, sched, LastSaved, savedLog, busVars, move, cmd>>

\* result = await accuse_handler.execute(command): the copy the handler
\* fetched is dropped when it returns.
Accuse(c, command) ==
  /\ cmd.pc = "idle"
  /\ move.pc = "idle"
  /\ LET r == get_by_id(heap, command.world_id, c)
         before == IF r.ret = None THEN NoWorld ELSE r.heap[r.ret]
     IN  lastOp' = [op |-> "accuse", caller |-> c, command |-> command, before |-> before,
                    result |-> accuse(before, command)]
  /\ UNCHANGED <<_worlds, heap, held, tasks, sched, LastSaved, savedLog, busVars, move, cmd>>

\* The store is empty, or holds a world whose scenario declares no
\* solution, one that needs two facts, one that needs none, or one whose
\* killer is not a character of the world; the player holds any of the facts.
InitAccuse ==
  \/ StartsFrom(NoWorld)
  \/ \E solution \in {NoSolution, Solution("sophie", <<"f1", "f3">>), Solution("sophie", <<>>),
                       Solution("ghost", <<"f1">>)},
        known \in SUBSET {"f1", "f2", "f3"} :
       StartsFrom([StoredAtStart(0, CharacterIds) EXCEPT
                     !.solution = solution,
                     !.characters[PLAYER_ID].knowledge =
                        [f \in known |-> KnowledgeEntry(f, "1.0")]])

\* Known and unknown players accuse known and unknown characters.
NextAccuse ==
  \E c \in MemCallers, p \in {PLAYER_ID, "ghost"}, a \in CharacterIds \cup {"ghost"} :
    Accuse(c, AccuseCharacterCommand(p, a))

SpecAccuse == InitAccuse /\ [][NextAccuse]_vars

(***************************************************************************)
(* NPCBehaviorSystem (application/services/npc_behavior_system.py): the    *)
(* clock of the world and the schedules of its characters. The driver      *)
(* calls update_game_time and then execute_npc_behaviors on the world it   *)
(* has in hand, after every player action that succeeded.                  *)
(***************************************************************************)
GAME_TIME_INCREMENT_MINUTES == 10

\* entry.time is a text "HH:MM", kept as the two numbers it spells.
ScheduleEntry(time, action_type, target) ==
  [time |-> time, action_type |-> action_type, target |-> target]

\* A clock that stops at the end of the day instead of starting a new one.
update_game_time_clamped(world) ==
  [world EXCEPT !.game_time =
     IF @ + GAME_TIME_INCREMENT_MINUTES >= 24 * 60 THEN @ ELSE @ + GAME_TIME_INCREMENT_MINUTES]

\* datetime.combine(datetime.min, world.game_time) + timedelta(minutes=10),
\* of which only the time of day is kept: the date the sum rolls into is
\* dropped. The world object itself is changed and returned.
update_game_time(world) ==
  [world EXCEPT !.game_time = (@ + GAME_TIME_INCREMENT_MINUTES) % (24 * 60)]

\* A scan that acts on the first matching move entry, whatever matched
\* before it.
execute_npc_behaviors_first_move(world) ==
  LET fromisoformat(text) == text[1] * 60 + text[2]
      npcs == SelectSeq(CharacterOrder,
                LAMBDA id : id \in DOMAIN world.characters /\ id # world.player_id)
      matching(id) == SelectSeq(world.characters[id].schedule,
                        LAMBDA entry : /\ fromisoformat(entry.time) = world.game_time
                                       /\ entry.action_type = "move")
      due(id) == IF matching(id) # <<>> /\ Head(matching(id)).target # None
                 THEN <<MoveCharacterCommand(id, Head(matching(id)).target)>>
                 ELSE <<>>
      movers == SelectSeq(npcs, LAMBDA id : due(id) # <<>>)
  IN  IF movers = <<>>
      THEN [world |-> world, calls |-> <<>>, outcome |-> "returned"]
      ELSE [world |-> world, calls |-> due(Head(movers)), outcome |-> "TypeError"]

\* for character_id, character in world.characters.items(): the player is
\* skipped; the first entry whose time equals the clock is the one performed
\* (break), and _perform_scheduled_action calls the Move handler for it when
\* it is a move with a target. The call is execute(command): the handler's
\* execute(command, world) gets no world, the call raises TypeError, which
\* is no ValueError and ends the run. calls are the commands execute was
\* called with.
execute_npc_behaviors(world) ==
  LET fromisoformat(text) == text[1] * 60 + text[2]
      npcs == SelectSeq(CharacterOrder,
                LAMBDA id : id \in DOMAIN world.characters /\ id # world.player_id)
      matching(id) == SelectSeq(world.characters[id].schedule,
                        LAMBDA entry : fromisoformat(entry.time) = world.game_time)
      due(id) == IF /\ matching(id) # <<>>
                    /\ Head(matching(id)).action_type = "move"
                    /\ Head(matching(id)).target # None
                 THEN <<MoveCharacterCommand(id, Head(matching(id)).target)>>
                 ELSE <<>>
      movers == SelectSeq(npcs, LAMBDA id : due(id) # <<>>)
  IN  IF movers = <<>>
      THEN [world |-> world, calls |-> <<>>, outcome |-> "returned"]
      ELSE [world |-> world, calls |-> due(Head(movers)), outcome |-> "TypeError"]

\* world = await npc_behavior_system.update_game_time(world)
UpdateGameTime(c) ==
  /\ held[c] # None
  /\ heap' = [heap EXCEPT ![held[c]] = update_game_time(@)]
  /\ lastOp' = [op |-> "clock", caller |-> c, before |-> heap[held[c]]]
  /\ UNCHANGED <<_worlds, held, tasks, sched, LastSaved, savedLog, busVars, move, cmd>>

\* world = await npc_behavior_system.execute_npc_behaviors(world)
ExecuteNpcBehaviors(c) ==
  /\ held[c] # None
  /\ LET r == execute_npc_behaviors(heap[held[c]])
     IN  /\ heap' = [heap EXCEPT ![held[c]] = r.world]
         /\ lastOp' = [op |-> "npc", caller |-> c, before |-> heap[held[c]],
                       calls |-> r.calls, outcome |-> r.outcome]
  /\ UNCHANGED <<_worlds, held, tasks, sched, LastSaved, savedLog, busVars, move, cmd>>

\* The store holds a world at 08:00 in which the player and Sophie have
\* schedules: up to two entries for Sophie, at 08:10 or 08:20, a move to
\* the deck, a move without target or a pause; the player has none or a
\* move at 08:10.
InitNpc ==
  LET entries == {ScheduleEntry(<<8, 10>>, "move", "deck"), ScheduleEntry(<<8, 10>>, "idle", None),
                  ScheduleEntry(<<8, 10>>, "move", None), ScheduleEntry(<<8, 20>>, "move", "deck"),
                  ScheduleEntry(<<8, 15>>, "move", "deck")}
  IN  \E sophie \in {<<>>} \cup {<<e>> : e \in entries} \cup (entries \X entries),
         player \in {<<>>, <<ScheduleEntry(<<8, 10>>, "move", "deck")>>} :
        StartsFrom([StoredAtStart(0, CharacterIds) EXCEPT
                      !.characters["sophie"].schedule = sophie,
                      !.characters[PLAYER_ID].schedule = player])

NextNpc ==
  \/ \E c \in MemCallers : Get(c)
  \/ \E c \in MemCallers : UpdateGameTime(c)
  \/ \E c \in MemCallers : ExecuteNpcBehaviors(c)

SpecNpc == InitNpc /\ [][NextNpc]_vars

(***************************************************************************)
(* The game loop (interface/cli/main.py): the operations of a session, in  *)
(* any order, on a world the scenario loader has built. The loader gives   *)
(* every character a location of the scenario and makes the player a       *)
(* character; here the world has an object with clues, two open dialogue   *)
(* sessions, a solution and a schedule for Sophie. Nobody has subscribed   *)
(* to the events, and the memories start empty: within the bounds none     *)
(* reaches the threshold, so that no compaction task is scheduled (the     *)
(* tasks, which rewrite narrative memory only, are followed by SpecMem and *)
(* SpecMove).                                                              *)
(***************************************************************************)
MaxTicks == 2

InitGame ==
  StartsFrom([Scene(FALSE, FALSE, EmptyDict, 0) EXCEPT
                !.facts = {"f1", "f2"},
                !.active_dialogues = [id \in {"s1", "s2"} |-> Sessions[id]],
                !.solution = Solution("sophie", <<"f1">>),
                !.characters["sophie"].schedule =
                   <<ScheduleEntry(<<8, 10>>, "move", "deck")>>])

NextGame ==
  \/ \E c \in MemCallers : move.pc = "idle" /\ cmd.pc = "idle" /\ Get(c)
  \/ \E c \in MemCallers : move.pc = "idle" /\ cmd.pc = "idle" /\ Save(c)
  \/ \E c \in MemCallers : move.pc = "idle" /\ cmd.pc = "idle" /\ Release(c)
  \/ \E c \in MemCallers, command \in MoveCommands : cmd.pc = "idle" /\ MoveBegin(c, command)
  \/ \E c \in MemCallers : MoveEnd(c)
  \/ \E c \in MemCallers, o \in {"desk", "safe"} :
       ExamineBegin(c, ExamineObjectCommand(PLAYER_ID, o, "bridge"))
  \/ \E c \in MemCallers : ExamineNext(c)
  \/ \E c \in MemCallers, li \in {"sophie", "ghost"} :
       TalkBegin(c, TalkToCharacterCommand(PLAYER_ID, li, "hello"))
  \/ \E c \in MemCallers : TalkReply(c, DialogueGenerationResponse("reply", <<"f2">>))
  \/ \E c \in MemCallers : TalkReplyFails(c)
  \/ \E c \in MemCallers, id \in {"s1", "s2", "s9"} : EndDialogue(c, EndDialogueCommand(id))
  \/ \E c \in MemCallers, a \in CharacterIds \cup {"ghost"} :
       Accuse(c, AccuseCharacterCommand(PLAYER_ID, a))
  \/ \E c \in MemCallers :
       /\ move.pc = "idle" /\ cmd.pc = "idle"
       /\ held[c] # None
       /\ heap[held[c]].game_time < 8 * 60 + MaxTicks * GAME_TIME_INCREMENT_MINUTES
       /\ UpdateGameTime(c)
  \/ \E c \in MemCallers : move.pc = "idle" /\ cmd.pc = "idle" /\ ExecuteNpcBehaviors(c)

SpecGame == InitGame /\ [][NextGame]_vars

(***************************************************************************)
(* One turn of the game loop for a verb other than talk                    *)
(* (interface/cli/main.py, 62 and 156-216), while the loop holds the id of *)
(* a dialogue session: the world is fetched, the session is ended, the     *)
(* action is run, and after an action that succeeded the clock is          *)
(* advanced, the schedules are run and the world is saved. An exception    *)
(* ends the turn where it is raised. look does nothing and does not count  *)
(* as succeeded; examine_handler.execute(command, world) raises TypeError, *)
(* the handler taking the command only; accuse leaves the loop with the    *)
(* verdict; move succeeds also when the player is at the target already.   *)
(* Nobody has subscribed to the events, so that publish returns at once.   *)
(***************************************************************************)
Turn(c, verb, target, session_id) ==
  /\ cmd.pc = "idle"
  /\ move.pc = "idle"
  /\ cmd.count < MaxCommands
  /\ held[c] = None
  /\ _worlds[WORLD_ID] # None
  /\ _subscriptions = <<>>
  /\ LET r == get_by_id(heap, WORLD_ID, c)
         world == r.heap[r.ret]
         e == end_dialogue(world, EndDialogueCommand(session_id))
         command == MoveCharacterCommand(PLAYER_ID, target)
         v == IF e.outcome = "returned" /\ verb = "move" THEN validate(e.world, command)
              ELSE "not run"
         after == IF v = "ok" THEN moved(e.world, command) ELSE e.world
         st == IF v = "ok"
               THEN compress_each([tasks |-> tasks, sched |-> sched], c, after,
                                  characters_whose_memory_changed(e.world, command))
               ELSE [tasks |-> tasks, sched |-> sched]
         npc == execute_npc_behaviors(update_game_time(after))
         saved == v \in {"ok", "noop"} /\ npc.outcome = "returned"
         s == save([r.heap EXCEPT ![r.ret] = npc.world], r.ret)
     IN  /\ Len(st.tasks) <= MaxTasks
         /\ tasks' = st.tasks
         /\ sched' = IF saved THEN OtherWrite(st.sched, 0) ELSE st.sched
         /\ pub' = IF v = "ok"
                   THEN publish(_subscriptions,
                                CharacterMoved(PLAYER_ID, world.characters[PLAYER_ID].location_id,
                                               target))
                   ELSE pub
         /\ _worlds' = IF saved THEN s.worlds ELSE _worlds
         /\ LastSaved' = IF saved THEN npc.world ELSE LastSaved
         /\ savedLog' = IF saved THEN Log2(savedLog, [by |-> c, noted |-> FALSE]) ELSE savedLog
         /\ lastOp' = [op |-> "turn", caller |-> c, verb |-> verb, session_id |-> session_id,
                       before |-> world, ended |-> e.outcome, action |-> v, saved |-> saved]
         /\ cmd' = [cmd EXCEPT !.count = @ + 1]
         /\ UNCHANGED <<held, _subscriptions, move>>
         /\ heap' = Collect(IF saved THEN s.heap ELSE heap, Roots')

\* The player types look, move (to a place of the map), examine or accuse
\* while the loop holds the id of one of the player's sessions.
NextDriver ==
  \E c \in MemCallers, verb \in {"look", "move", "examine", "accuse"},
     target \in LocationIds, session_id \in {"s1", "s2", "s3"} :
    Turn(c, verb, target, session_id)

SpecDriver == InitDialogue /\ [][NextDriver]_vars

(***************************************************************************)
(* LitellmService._get_llm_response (infrastructure/llm/litellm_service.py)*)
(* One request calls the backend, litellm.acompletion, in a loop of        *)
(* max_retries attempts. A call ends with a response or with an exception  *)
(* of the backend: one of the three the first except clause names, or any  *)
(* other. locals.attempt is the loop variable, locals.calls the outcomes   *)
(* of the calls made so far.                                               *)
(***************************************************************************)
max_retries == 3

\* async def _get_llm_response(self, messages): the loop is entered.
GetLlmResponse(c) ==
  /\ cmd.pc = "idle"
  /\ cmd.count < MaxCommands
  /\ cmd' = [pc |-> "acompletion", caller |-> c, command |-> [kind |-> "llm"],
             locals |-> [attempt |-> 0, calls |-> <<>>], count |-> cmd.count + 1]
  /\ lastOp' = [op |-> "llm", caller |-> c, calls |-> <<>>, outcome |-> "pending"]
  /\ UNCHANGED <<_worlds, heap, held, tasks, sched, LastSaved, savedLog, busVars, move>>

\* As Acompletion, but the second except clause retries as the first does.
AcompletionRetryingAnyError(outcome) ==
  /\ cmd.pc = "acompletion"
  /\ LET calls == Append(cmd.locals.calls, outcome)
         last == cmd.locals.attempt + 1 = max_retries
     IN  IF outcome = "response"
         THEN /\ lastOp' = [lastOp EXCEPT !.calls = calls, !.outcome = "returned"]
              /\ cmd' = [cmd EXCEPT !.pc = "idle", !.locals = <<>>]
         ELSE IF last
              THEN /\ lastOp' = [lastOp EXCEPT !.calls = calls, !.outcome = outcome]
                   /\ cmd' = [cmd EXCEPT !.pc = "idle", !.locals = <<>>]
              ELSE /\ lastOp' = [lastOp EXCEPT !.calls = calls]
                   /\ cmd' = [cmd EXCEPT !.pc = "sleep", !.locals.calls = calls]
  /\ UNCHANGED <<_worlds, heap, held, tasks, sched, LastSaved, savedLog, busVars, move>>

\* response = await litellm.acompletion(...) in the try: a response is
\* returned; APIConnectionError, Timeout and ServiceUnavailableError are
\* raised again on the last attempt and slept on before; any other
\* exception is raised again.
Acompletion(outcome) ==
  /\ cmd.pc = "acompletion"
  /\ LET calls == Append(cmd.locals.calls, outcome)
         last == cmd.locals.attempt + 1 = max_retries
     IN  IF outcome = "response"
         THEN /\ lastOp' = [lastOp EXCEPT !.calls = calls, !.outcome = "returned"]
              /\ cmd' = [cmd EXCEPT !.pc = "idle", !.locals = <<>>]
         ELSE IF outcome \in {"APIConnectionError", "Timeout", "ServiceUnavailableError"}
              THEN IF last
                   THEN /\ lastOp' = [lastOp EXCEPT !.calls = calls, !.outcome = outcome]
                        /\ cmd' = [cmd EXCEPT !.pc = "idle", !.locals = <<>>]
                   ELSE /\ lastOp' = [lastOp EXCEPT !.calls = calls]
                        /\ cmd' = [cmd EXCEPT !.pc = "sleep", !.locals.calls = calls]
              ELSE /\ lastOp' = [lastOp EXCEPT !.calls = calls, !.outcome = outcome]
                   /\ cmd' = [cmd EXCEPT !.pc = "idle", !.locals = <<>>]
  /\ UNCHANGED <<_worlds, heap, held, tasks, sched, LastSaved, savedLog, busVars, move>>

\* await asyncio.sleep(1), then the next attempt of the loop; after the
\* loop the apology is returned.
Sleep ==
  /\ cmd.pc = "sleep"
  /\ IF cmd.locals.attempt + 1 < max_retries
     THEN /\ cmd' = [cmd EXCEPT !.pc = "acompletion", !.locals.attempt = @ + 1]
          /\ UNCHANGED lastOp
     ELSE /\ cmd' = [cmd EXCEPT !.pc = "idle", !.locals = <<>>]
          /\ lastOp' = [lastOp EXCEPT !.outcome = "returned the apology"]
  /\ UNCHANGED <<_worlds, heap, held, tasks, sched, LastSaved, savedLog, busVars, move>>

NextLlm ==
  \/ \E c \in Callers : GetLlmResponse(c)
  \/ \E outcome \in {"response", "APIConnectionError", "Timeout", "ServiceUnavailableError",
                     "AuthenticationError"} :
       Acompletion(outcome)
  \/ Sleep

\* The service needs no world. A call of the backend ends, and so does the
\* sleep: the steps of a request in progress are taken.
SpecLlm == InitStore /\ [][NextLlm]_vars /\ WF_vars(NextLlm)

(***************************************************************************)
(* C1: every get returns an isolated copy of what was last saved: whatever *)
(* other callers have done to the copies they hold, the world a get has    *)
(* just returned equals the world passed to the most recent save (and is   *)
(* absent exactly when nothing is stored).                                 *)
(***************************************************************************)
GetReturnsLastSaved ==
  lastOp.op = "get" =>
    IF held[lastOp.caller] = None
    THEN LastSaved = NoWorld
    ELSE heap[held[lastOp.caller]] = LastSaved

\* Witness: a get has just returned the saved world while another caller holds
\* a copy of it that it has changed and not saved.
GetWhileOtherMutated ==
  /\ lastOp.op = "get"
  /\ held[lastOp.caller] # None
  /\ \E c \in Callers \ {lastOp.caller} :
       /\ held[c] # None
       /\ HasNote(heap[held[c]], c)
       /\ ~HasNote(LastSaved, c)
       /\ heap[held[lastOp.caller]] # heap[held[c]]

(***************************************************************************)
(* C2: every save stores a copy: whatever the caller does afterwards to    *)
(* the object it passed in, the store's content stays the world as it was  *)
(* at the time of the save.                                                *)
(***************************************************************************)
StoreKeepsSavedState ==
  Stored(WORLD_ID) = LastSaved

\* Witness: the caller of the last save has since changed the object it saved.
SaverMutatedAfterSave ==
  /\ savedLog # <<>>
  /\ lastOp.op = "append"
  /\ lastOp.caller = savedLog[Len(savedLog)].by
  /\ heap[held[lastOp.caller]] # LastSaved
  /\ Stored(WORLD_ID) = LastSaved

(***************************************************************************)
(* C3: last write wins: a save never fails and never merges; right after   *)
(* a save the store holds exactly the world that was passed to it.         *)
(***************************************************************************)
LastWriteWins ==
  [][lastOp'.op = "save" =>
       /\ Stored(WORLD_ID)' = heap[held[lastOp'.caller]]
       /\ \A c \in Callers : held[c] # None => ENABLED Save(c)]_vars

\* Witness: two callers saved in turn; the store has the second caller's
\* change and not the first's, which was in the world the first one saved.
SecondSaveClobberedFirst ==
  /\ Len(savedLog) = 2
  /\ savedLog[1].by # savedLog[2].by
  /\ savedLog[1].noted
  /\ HasNote(Stored(WORLD_ID), savedLog[2].by)
  /\ ~HasNote(Stored(WORLD_ID), savedLog[1].by)

(***************************************************************************)
(* C4: publish invokes a handler once per subscription of its whose type   *)
(* is the event's type or a supertype of it, and never for a subscription  *)
(* to an unrelated type: for every handler, the number of tasks publish    *)
(* started for it equals the number of its matching subscriptions.         *)
(***************************************************************************)
MatchingSubscriptions(subs, event, h) ==
  {<<i, k>> \in (1..MaxSubs + 1) \X (1..MaxSubs + 1) :
     /\ i \in DOMAIN subs
     /\ k \in DOMAIN subs[i].handlers
     /\ subs[i].handlers[k] = h
     /\ (subs[i].type = event.type \/ subs[i].type \in Ancestors(event.type) \ {event.type})}

Invocations(runs, h) ==
  {i \in DOMAIN runs : runs[i].handler = h}

PublishInvokesMatchingSubscriptions ==
  pub.pc # "none" =>
    \A h \in Handlers :
      Cardinality(Invocations(pub.runs, h))
        = Cardinality(MatchingSubscriptions(pub.subs, pub.event, h))

\* Witness: a publish reached a handler through a subscription to the base
\* type and through one to the event's own type, and left out a handler
\* subscribed to another event type only.
PublishToSupertypeNotUnrelated ==
  /\ pub.pc # "none"
  /\ \E i, j \in DOMAIN pub.subs :
       /\ pub.subs[i].type = "DomainEvent"
       /\ pub.subs[j].type \notin {"DomainEvent", pub.event.type}
       /\ \E h \in Handlers :
            /\ pub.subs[j].handlers = <<h>>
            /\ Invocations(pub.runs, h) = {}
       /\ \E h \in Handlers :
            /\ pub.subs[i].handlers = <<h>>
            /\ Cardinality(Invocations(pub.runs, h)) = 1

(***************************************************************************)
(* C5: publish is a join: when it has resolved (returned or raised), every *)
(* handler task it started has completed or failed.                        *)
(***************************************************************************)
PublishResolvesAfterAllHandlers ==
  pub.pc \in {"returned", "raised"} =>
    \A i \in DOMAIN pub.runs : Finished(pub.runs[i])

(***************************************************************************)
(* C6: a handler's failure does not stop its siblings: once a handler of a *)
(* publish has failed, every other handler of that publish still ends by   *)
(* itself, returning or raising (none is cancelled).                       *)
(***************************************************************************)
SiblingsRunToCompletion ==
  \A i \in 1..(MaxSubs + 1) :
    [](((i \in DOMAIN pub.runs) /\ pub.runs[i].status = "failed")
         => <>(\A j \in DOMAIN pub.runs : Finished(pub.runs[j])))

\* Witness: a handler failed first and a sibling returned after it.
SiblingReturnedAfterFailure ==
  \E i, j \in DOMAIN pub.runs :
    /\ pub.runs[i].status = "failed"
    /\ pub.runs[i].end = 1
    /\ pub.runs[j].status = "done"
    /\ pub.runs[j].end > 1

(***************************************************************************)
(* C7: compress_memory_if_needed schedules exactly one background task     *)
(* when the character's narrative memory has more than threshold entries,  *)
(* and none when it has threshold entries or fewer, whatever the chunk     *)
(* size. lastOp keeps the arguments of the last call and the number of     *)
(* tasks before it; the steps of the tasks create no task.                 *)
(***************************************************************************)
CompressSchedulesIffAboveThreshold ==
  lastOp.op = "compress" =>
    Len(tasks) - lastOp.before = IF lastOp.len > lastOp.threshold THEN 1 ELSE 0

\* Two calls with different chunk sizes have scheduled one task each, and a
\* call on a memory of exactly threshold entries has scheduled none.
NoTaskAtThreshold ==
  /\ lastOp.op = "compress"
  /\ lastOp.len = lastOp.threshold
  /\ lastOp.len = DEFAULT_THRESHOLD
  /\ Len(tasks) = 2
  /\ lastOp.before = 2
  /\ Len(tasks[1].chunk) # Len(tasks[2].chunk)

(***************************************************************************)
(* C8: when a scheduled compaction completes with no other write to the    *)
(* store between its scheduling and its save, the character's stored       *)
(* narrative memory is the summary followed by the entries after the first *)
(* chunkSize entries, in their order. The entries are those the store held *)
(* for the character when the task was scheduled, the caller having at     *)
(* most appended lines to them in the world it passed.                     *)
(***************************************************************************)
CompactionKeepsTail ==
  \A i \in DOMAIN tasks :
    (tasks[i].pc = "done" /\ sched[i].clean /\ sched[i].appended) =>
      sched[i].result = <<tasks[i].summary>> \o Drop(sched[i].stored, sched[i].items)

\* [e0..e19], threshold 15, chunk 10: the store holds [summary, e10..e19].
TwentyEntriesCompacted ==
  /\ lastOp.op = "compress"
  /\ lastOp.threshold = DEFAULT_THRESHOLD
  /\ lastOp.items = DEFAULT_ITEMS_TO_SUMMARIZE
  /\ lastOp.before = 0
  /\ Len(tasks) = 1
  /\ tasks[1].pc = "done"
  /\ sched[1].clean
  /\ sched[1].stored = EventLog(20)
  /\ StoredMemory(WORLD_ID, PLAYER_ID) = <<Summary(1)>> \o [k \in 1..10 |-> Entry(k + 9)]
  /\ Len(StoredMemory(WORLD_ID, PLAYER_ID)) = 11

(***************************************************************************)
(* C9: if the summarization fails, or the world or the character is        *)
(* missing when the task re-reads the store, the task ends without saving  *)
(* anything: the step that drops it leaves the store and every caller's    *)
(* world as they were, a dropped task takes no further step, and no task   *)
(* asks for a summary more than once.                                      *)
(***************************************************************************)
FailedCompactionIsDropped ==
  /\ [](\A i \in DOMAIN tasks :
          /\ tasks[i].calls <= 1
          /\ tasks[i].pc = "dropped" => tasks[i].saves = 0)
  /\ [][\A i \in DOMAIN tasks :
          /\ tasks[i].pc = "dropped" => tasks'[i] = tasks[i]
          /\ (tasks[i].pc # "dropped" /\ tasks'[i].pc = "dropped") =>
               /\ UNCHANGED <<_worlds, held, LastSaved, savedLog>>
               /\ Stored(WORLD_ID)' = Stored(WORLD_ID)
               /\ \A c \in Callers : heap'[c] = heap[c]]_vars

\* One task was dropped on a failed summarization, another on a missing world.
TwoTasksDropped ==
  /\ Len(tasks) = 2
  /\ tasks[1].pc = "dropped" /\ tasks[1].why = "summarize"
  /\ tasks[2].pc = "dropped" /\ tasks[2].why = "world"
  /\ held["c1"] # None

(***************************************************************************)
(* C10: after every Move that returns without being a no-op, the mover's   *)
(* location_id in the world handed back is the command's target, and the   *)
(* target was among the connections of the location the mover was in       *)
(* before the move; a connection declared from the target only does not    *)
(* make the move succeed.                                                  *)
(***************************************************************************)
MoveEndsAtConnectedTarget ==
  (lastOp.op = "move" /\ lastOp.outcome = "ok") =>
    /\ heap[held[lastOp.caller]].characters[lastOp.command.character_id].location_id
         = lastOp.command.target_location_id
    /\ lastOp.command.target_location_id \in ScenarioLocations[lastOp.from].connections
    /\ lastOp.command.target_location_id \in lastOp.connections

\* A move along a one-way connection has succeeded: the connection back is
\* not declared.
MovedOneWay ==
  /\ lastOp.op = "move"
  /\ lastOp.outcome = "ok"
  /\ lastOp.from \notin ScenarioLocations[lastOp.command.target_location_id].connections
  /\ heap[held[lastOp.caller]].characters[lastOp.command.character_id].location_id
       = lastOp.command.target_location_id

(***************************************************************************)
(* C11: a Move that names an unknown character, an unknown target          *)
(* location, or a target (other than the mover's own location) that the    *)
(* current location does not list among its connections raises a           *)
(* validation error, and the step that raises it changes nothing: not the  *)
(* world in hand (locations, narrative memories), not the bus (no event    *)
(* published), not the background tasks (no compaction scheduled), not the *)
(* store.                                                                  *)
(***************************************************************************)
MoveErrorLeavesWorldUntouched ==
  /\ [](lastOp.op = "move" =>
         LET target == lastOp.command.target_location_id
         IN  (\/ lastOp.from = None
              \/ lastOp.from # target /\ target \notin LocationIds
              \/ lastOp.from # target /\ target \notin lastOp.connections)
               => lastOp.outcome \in ValidationErrors)
  /\ [][(lastOp' # lastOp /\ lastOp'.op = "move" /\ lastOp'.outcome \in ValidationErrors)
          => UNCHANGED <<_worlds, heap, held, tasks, sched, LastSaved, savedLog,
                         _subscriptions, pub, move>>]_vars

\* A move against a one-way connection has been refused, with handlers
\* subscribed and the player's memory long enough for a compaction.
MoveAgainstOneWayRefused ==
  /\ lastOp.op = "move"
  /\ lastOp.outcome = "not accessible"
  /\ lastOp.command = MoveCharacterCommand(PLAYER_ID, "cabin")
  /\ lastOp.from = "bridge"
  /\ Len(_subscriptions) = 2
  /\ Len(heap[held[lastOp.caller]].characters[PLAYER_ID].narrative_memory) > DEFAULT_THRESHOLD
  /\ tasks = <<>>
  /\ pub = NoPub

\* The clues of the object an examine was about, in the world it fetched.
CluesBefore(op) ==
  LET objects == op.before.locations[op.command.location_id].objects
  IN  objects[target_object(objects, op.command.object_id)].clues

\* The clues of that object in a world.
CluesIn(world, op) ==
  LET objects == world.locations[op.command.location_id].objects
  IN  objects[target_object(objects, op.command.object_id)].clues

Examined(op) == op.op = "examine" /\ op.outcome \in {"pending", "publish raised", "ok"}

(***************************************************************************)
(* C12: an examine of an object whose clues are all found already, the     *)
(* first or a repeated one, returns no clue, leaves the player's knowledge *)
(* as it was and publishes no event: it returns at once, with the bus as   *)
(* it was.                                                                 *)
(***************************************************************************)
ExamineOfFoundCluesDiscoversNothing ==
  /\ [](Examined(lastOp) /\ SelectSeq(CluesBefore(lastOp), LAMBDA clue : ~clue.is_found) = <<>> =>
          /\ lastOp.outcome = "ok"
          /\ lastOp.clues = <<>>
          /\ lastOp.published = <<>>
          /\ heap[held[lastOp.caller]].characters[lastOp.command.player_id].knowledge
               = lastOp.before.characters[lastOp.command.player_id].knowledge)
  /\ [][(lastOp' # lastOp /\ Examined(lastOp')
           /\ SelectSeq(CluesBefore(lastOp'), LAMBDA clue : ~clue.is_found) = <<>>) => pub' = pub]_vars

\* The desk has been examined a second time, after the examine that found
\* its clues.
DeskExaminedAgain ==
  /\ Examined(lastOp)
  /\ lastOp.outcome = "ok"
  /\ lastOp.command.object_id = "desk"
  /\ SelectSeq(CluesBefore(lastOp), LAMBDA clue : ~clue.is_found) = <<>>
  /\ cmd.count = 2
  /\ \E i \in DOMAIN pub.runs : pub.event.type = "FactDiscovered"

(***************************************************************************)
(* C13: when an examine has returned, every clue of the object is found in *)
(* the world it returns; it has returned the clues that were not found     *)
(* before, in order; the player holds a certainty-1.0 entry for the fact   *)
(* of each; the player's memory is what it was followed by one discovery   *)
(* line per such clue (by the nothing-new line when there is none); one    *)
(* event per such clue was published, in order; and the world passed to    *)
(* save is the world returned, which is what the store holds as long as    *)
(* the examine's save is the last write.                                   *)
(***************************************************************************)
ExamineDiscoversUnfoundClues ==
  Examined(lastOp) /\ lastOp.outcome = "ok" =>
    LET world == heap[held[lastOp.caller]]
        player == world.characters[lastOp.command.player_id]
        before == lastOp.before.characters[lastOp.command.player_id]
        unfound == SelectSeq(CluesBefore(lastOp), LAMBDA clue : ~clue.is_found)
    IN  /\ \A i \in DOMAIN CluesIn(world, lastOp) :
             /\ CluesIn(world, lastOp)[i].is_found
             /\ CluesIn(world, lastOp)[i].fact_id = CluesBefore(lastOp)[i].fact_id
        /\ Len(CluesIn(world, lastOp)) = Len(CluesBefore(lastOp))
        /\ Len(lastOp.clues) = Len(unfound)
        /\ \A i \in DOMAIN unfound :
             /\ lastOp.clues[i] = Clue(unfound[i].fact_id, TRUE)
             /\ unfound[i].fact_id \in DOMAIN player.knowledge
             /\ player.knowledge[unfound[i].fact_id] = KnowledgeEntry(unfound[i].fact_id, "1.0")
             /\ lastOp.published[i] = unfound[i].fact_id
        /\ Len(lastOp.published) = Len(unfound)
        /\ Len(player.narrative_memory)
             = Len(before.narrative_memory) + (IF unfound = <<>> THEN 1 ELSE Len(unfound))
        /\ \A i \in DOMAIN before.narrative_memory :
             player.narrative_memory[i] = before.narrative_memory[i]
        /\ \A i \in DOMAIN unfound :
             player.narrative_memory[Len(before.narrative_memory) + i]
               = Line("discovered", lastOp.command.object_id, unfound[i].fact_id)
        /\ unfound = <<>> =>
             player.narrative_memory[Len(player.narrative_memory)]
               = Line("found nothing new", lastOp.command.object_id, None)
        /\ lastOp.saved = world
        /\ savedLog[Len(savedLog)].by = lastOp.caller => Stored(WORLD_ID) = world

\* An examine has found both clues of the desk, one of a fact the player
\* held a weaker belief about, and both events have been handled.
BothCluesDiscovered ==
  /\ Examined(lastOp)
  /\ lastOp.outcome = "ok"
  /\ Len(lastOp.clues) = 2
  /\ "f1" \in DOMAIN lastOp.before.characters[PLAYER_ID].knowledge
  /\ lastOp.published = <<"f1", "f2">>
  /\ Len(pub.runs) = 2
  /\ Stored(WORLD_ID) = heap[held[lastOp.caller]]


\* A talk whose checks pass and that has ended otherwise than by a failure
\* of the language model.
TalkEnded(op) ==
  /\ op.op = "talk"
  /\ talk_checks(op.before, op.command) = "ok"
  /\ op.outcome \notin {"pending", "generation failed"}

(***************************************************************************)
(* C14: a talk without a session id, between two characters in the same    *)
(* location, leaves exactly one new session in the stored world: active,   *)
(* with the speaker and the listener as participants, and, when the        *)
(* command carried no message, with an empty history and no generation     *)
(* call made.                                                              *)
(***************************************************************************)
TalkCreatesOneSession ==
  TalkEnded(lastOp) /\ lastOp.command.session_id = None =>
    LET sessions == Stored(WORLD_ID).active_dialogues
        new == DOMAIN sessions \ DOMAIN lastOp.before.active_dialogues
    IN  /\ Cardinality(new) = 1
        /\ \A id \in new :
             /\ sessions[id].is_active
             /\ Range(sessions[id].participants)
                  = {lastOp.command.speaker_id, lastOp.command.listener_id}
             /\ lastOp.command.message = None =>
                  sessions[id].history = <<>> /\ lastOp.calls = 0

(***************************************************************************)
(* C15: a talk between two characters of the world who are not in the same *)
(* location raises the validation error, without a generation call, and    *)
(* the step that raises changes nothing: no world in the store or in hand, *)
(* no session, no line, no knowledge entry, no save, no event, no task.    *)
(***************************************************************************)
TalkAcrossLocationsChangesNothing ==
  /\ [](lastOp.op = "talk" /\ lastOp.before # NoWorld
          /\ lastOp.command.speaker_id \in DOMAIN lastOp.before.characters
          /\ lastOp.command.listener_id \in DOMAIN lastOp.before.characters
          /\ lastOp.before.characters[lastOp.command.speaker_id].location_id
               # lastOp.before.characters[lastOp.command.listener_id].location_id
        => lastOp.outcome = "not in the same location" /\ lastOp.calls = 0)
  /\ [][(lastOp' # lastOp /\ lastOp'.op = "talk"
           /\ lastOp'.outcome = "not in the same location")
         => UNCHANGED <<_worlds, heap, held, tasks, sched, LastSaved, savedLog,
                        _subscriptions, pub, move, cmd>>]_vars

\* The player, on the bridge, has tried to say hello to Sophie, on the deck.
TalkedAcrossLocations ==
  /\ lastOp.op = "talk"
  /\ lastOp.outcome = "not in the same location"
  /\ lastOp.command = TalkToCharacterCommand(PLAYER_ID, "sophie", "hello")
  /\ lastOp.before.characters["sophie"].location_id = "deck"

(***************************************************************************)
(* C16: a talk between two different characters whose reply has arrived    *)
(* succeeds, and the stored memories have then gained: the speaker's, the  *)
(* 'I said' line, the 'replied to me' line and then the learned lines; the *)
(* listener's, the 'said to me' line and then the 'I replied' line.        *)
(***************************************************************************)
TalkAppendsLinesInOrder ==
  TalkEnded(lastOp) /\ lastOp.response # NoResponse
    /\ lastOp.command.speaker_id # lastOp.command.listener_id =>
    LET sp == lastOp.command.speaker_id
        li == lastOp.command.listener_id
        stored == Stored(WORLD_ID).characters
        before == lastOp.before.characters
        learned == Drop(stored[sp].narrative_memory, Len(before[sp].narrative_memory) + 2)
    IN  /\ lastOp.outcome = "ok"
        /\ IsPrefix(before[sp].narrative_memory
                      \o <<Line("I said to", li, lastOp.command.message),
                           Line("replied to me", li, lastOp.response.text)>>,
                    stored[sp].narrative_memory)
        /\ \A i \in DOMAIN learned : learned[i][1] = "I learned something new from"
        /\ stored[li].narrative_memory
             = before[li].narrative_memory
                 \o <<Line("said to me", sp, lastOp.command.message), Line("I replied to", sp, lastOp.response.text)>>

EndOfEndedSessionIsNoOp ==
  /\ [](lastOp.op = "end" /\ ~ActiveSession(lastOp.before, lastOp.command.session_id)
          => lastOp.outcome = "returned" /\ heap[held[lastOp.caller]] = lastOp.before)
  /\ [][(cmd'.count # cmd.count /\ lastOp'.op = "end"
           /\ ~ActiveSession(lastOp'.before, lastOp'.command.session_id))
         => UNCHANGED <<_worlds, heap, held, tasks, sched, LastSaved, savedLog,
                        _subscriptions, pub, move>>]_vars
  /\ [][(cmd'.count # cmd.count /\ lastOp.op = "end" /\ lastOp'.op = "end"
           /\ lastOp'.command = lastOp.command)
         => heap'[held'[lastOp'.caller]] = heap[held[lastOp.caller]]]_vars

\* The session just opened has been ended, and ended again.
SessionEndedTwice ==
  /\ lastOp.op = "end"
  /\ lastOp.command.session_id = "s1"
  /\ lastOp.outcome = "returned"
  /\ "s1" \notin DOMAIN lastOp.before.active_dialogues
  /\ "s1" \in DOMAIN Stored(WORLD_ID).active_dialogues
  /\ cmd.count = 2

(***************************************************************************)
(* C19: when an active session with history has been ended, one            *)
(* summarization call was made per participant of the world, each such     *)
(* participant's memory has gained the result, and the session is no       *)
(* longer among the world's active sessions.                               *)
(***************************************************************************)
EndFoldsHistoryAndRemovesSession ==
  lastOp.op = "end" /\ ActiveSession(lastOp.before, lastOp.command.session_id)
    /\ lastOp.before.active_dialogues[lastOp.command.session_id].history # <<>> =>
    LET world == heap[held[lastOp.caller]]
        present == Present(lastOp.before,
                           lastOp.before.active_dialogues[lastOp.command.session_id])
    IN  /\ lastOp.outcome = "returned"
        /\ lastOp.calls = Len(present)
        /\ \A i \in DOMAIN present :
             Len(world.characters[present[i]].narrative_memory)
               > Len(lastOp.before.characters[present[i]].narrative_memory)
        /\ lastOp.command.session_id \notin DOMAIN world.active_dialogues


(***************************************************************************)
(* C20: an accusation that returns a verdict returns is_correct exactly    *)
(* when the world has a solution, the accused is the solution's killer and *)
(* every required fact is a key of the player's knowledge, whatever else   *)
(* the player knows; an accusation that raises returns no verdict.         *)
(***************************************************************************)
AccuseVerdict ==
  lastOp.op = "accuse" =>
    LET world == lastOp.before
        command == lastOp.command
    IN  /\ lastOp.result.outcome = "returned" =>
             (lastOp.result.is_correct <=>
                /\ world.solution # NoSolution
                /\ command.accused_character_id = world.solution.killer_id
                /\ \A f \in Range(world.solution.required_fact_ids) :
                     f \in DOMAIN world.characters[command.player_id].knowledge)
        /\ lastOp.result.outcome = "raised" => ~lastOp.result.is_correct
        /\ (world # NoWorld /\ world.solution # NoSolution
              /\ command.player_id \in DOMAIN world.characters
              /\ command.accused_character_id \in DOMAIN world.characters
              /\ command.accused_character_id # world.solution.killer_id)
             => lastOp.result.outcome = "returned" /\ ~lastOp.result.is_correct

\* The killer has been accused by a player who holds the two required facts
\* and one more.
KillerAccusedWithExtraFact ==
  /\ lastOp.op = "accuse"
  /\ lastOp.result.outcome = "returned"
  /\ lastOp.result.is_correct
  /\ lastOp.before.solution = Solution("sophie", <<"f1", "f3">>)
  /\ DOMAIN lastOp.before.characters[PLAYER_ID].knowledge = {"f1", "f2", "f3"}


(***************************************************************************)
(* C21: an accusation naming a world, a player or an accused the store     *)
(* does not know raises the validation error, in that order, whatever the  *)
(* solution: an unknown accused in a world without a solution raises and   *)
(* does not return the no-solution verdict.                                *)
(***************************************************************************)
AccuseValidatesBeforeVerdict ==
  lastOp.op = "accuse" =>
    LET world == lastOp.before
        command == lastOp.command
    IN  /\ world = NoWorld => lastOp.result = Raised("world not found")
        /\ (world # NoWorld /\ command.player_id \notin DOMAIN world.characters)
             => lastOp.result = Raised("player not found")
        /\ (world # NoWorld /\ command.player_id \in DOMAIN world.characters
              /\ command.accused_character_id \notin DOMAIN world.characters)
             => lastOp.result = Raised("accused not found")
        /\ lastOp.result.outcome = "raised" =>
             \/ world = NoWorld
             \/ command.player_id \notin DOMAIN world.characters
             \/ command.accused_character_id \notin DOMAIN world.characters

\* The player has accused an unknown character in a world without a solution.
UnknownAccusedWithoutSolution ==
  /\ lastOp.op = "accuse"
  /\ lastOp.before # NoWorld
  /\ lastOp.before.solution = NoSolution
  /\ lastOp.command = AccuseCharacterCommand(PLAYER_ID, "ghost")
  /\ lastOp.result.outcome = "raised"

(***************************************************************************)
(* C22: an accusation, whatever its outcome, leaves the store as it was:   *)
(* the step changes no stored object and no record of a save, and the      *)
(* store holds afterwards the world the handler fetched.                   *)
(***************************************************************************)
AccuseLeavesStoreUnchanged ==
  /\ [](lastOp.op = "accuse" => Stored(WORLD_ID) = lastOp.before)
  /\ [][(lastOp' # lastOp /\ lastOp'.op = "accuse")
         => UNCHANGED <<_worlds, heap, held, LastSaved, savedLog>>]_vars

\* The player has won an accusation, and the store still holds the solution.
WonAndStoreKept ==
  /\ lastOp.op = "accuse"
  /\ lastOp.result.is_correct
  /\ lastOp.command.player_id = PLAYER_ID
  /\ Stored(WORLD_ID).solution = Solution("sophie", <<>>)



(***************************************************************************)
(* C23: in one run of execute_npc_behaviors the Move handler is called at  *)
(* most once per non-player character, never for the player, and only with *)
(* the target of the character's first schedule entry whose time equals    *)
(* the clock, that entry being a move; a character whose first entry at    *)
(* the clock is of another type gets no call even when a later entry at    *)
(* the clock is a move, and when no character has an entry at the clock no *)
(* call is made.                                                           *)
(***************************************************************************)
MoveInvokedOnlyForFirstMatch ==
  lastOp.op = "npc" =>
    LET world == lastOp.before
        calls == lastOp.calls
        AtClock(entry) == entry.time[1] * 60 + entry.time[2] = world.game_time
        FirstAtClock(schedule, i) ==
          /\ AtClock(schedule[i])
          /\ \A j \in 1..(i - 1) : ~AtClock(schedule[j])
    IN  /\ \A id \in CharacterIds :
             Cardinality({k \in DOMAIN calls : calls[k].character_id = id}) <= 1
        /\ \A k \in DOMAIN calls :
             /\ calls[k].character_id # world.player_id
             /\ calls[k].character_id \in DOMAIN world.characters
             /\ LET schedule == world.characters[calls[k].character_id].schedule
                IN  \E i \in DOMAIN schedule :
                      /\ FirstAtClock(schedule, i)
                      /\ schedule[i].action_type = "move"
                      /\ schedule[i].target = calls[k].target_location_id
        /\ (\A id \in DOMAIN world.characters \ {world.player_id} :
              \A i \in DOMAIN world.characters[id].schedule :
                ~AtClock(world.characters[id].schedule[i]))
             => calls = <<>>

\* Witness: at 08:10 Sophie's schedule holds a pause and then a move, both at
\* 08:10, the player's schedule holds a move at 08:10, and the run has called
\* the Move handler for nobody.
PauseSuppressedLaterMove ==
  /\ lastOp.op = "npc"
  /\ lastOp.before.game_time = 8 * 60 + 10
  /\ lastOp.before.characters["sophie"].schedule =
       <<ScheduleEntry(<<8, 10>>, "idle", None), ScheduleEntry(<<8, 10>>, "move", "deck")>>
  /\ lastOp.before.characters[PLAYER_ID].schedule # <<>>
  /\ lastOp.calls = <<>>

(***************************************************************************)
(* C24: update_game_time moves the clock of the world forward by exactly   *)
(* ten minutes within the day, 23:50 becoming 00:00, and changes no other  *)
(* field of the world.                                                     *)
(***************************************************************************)
ClockAdvancesTenMinutes ==
  lastOp.op = "clock" =>
    LET before == lastOp.before
        after == heap[held[lastOp.caller]]
    IN  /\ after.game_time \in 0..(24 * 60 - 1)
        /\ after.game_time = IF before.game_time = 23 * 60 + 50 THEN 0
                             ELSE before.game_time + 10
        /\ after = [before EXCEPT !.game_time = after.game_time]

\* Witness: the clock has just gone from 23:50 to 00:00.
ClockWrappedAtMidnight ==
  /\ lastOp.op = "clock"
  /\ lastOp.before.game_time = 23 * 60 + 50
  /\ heap[held[lastOp.caller]].game_time = 0


(***************************************************************************)
(* C25: every world of a session that started from a world of the loader,  *)
(* the stored one and every copy in a caller's hands, keeps its references *)
(* whole through every move, examine, talk, end of dialogue, accusation    *)
(* and tick: player_id is the id of a character, the location_id of every  *)
(* character is the id of a location, and the participants of every        *)
(* dialogue session are ids of characters.                                 *)
(***************************************************************************)
ReferencesStayValid ==
  \A a \in Addrs :
    heap[a] # Free =>
      LET world == heap[a]
      IN  /\ world.player_id \in DOMAIN world.characters
          /\ \A id \in DOMAIN world.characters :
               world.characters[id].location_id \in DOMAIN world.locations
          /\ \A sid \in DOMAIN world.active_dialogues :
               \A k \in DOMAIN world.active_dialogues[sid].participants :
                 world.active_dialogues[sid].participants[k] \in DOMAIN world.characters

\* Witness: the player has moved to the deck and the move is saved, a session
\* has been ended, and the clock has advanced.
MovedEndedAndTicked ==
  /\ Stored(WORLD_ID) # NoWorld
  /\ Stored(WORLD_ID).characters[PLAYER_ID].location_id = "deck"
  /\ DOMAIN Stored(WORLD_ID).active_dialogues = {"s2"}
  /\ Stored(WORLD_ID).game_time = 8 * 60 + 10


(***************************************************************************)
(* C26: the compaction task rewrites the memory it reads from the store    *)
(* when it writes back, not the one its caller held at scheduling: the     *)
(* lines that came into the store between the scheduling and the task's    *)
(* read (lines the store did not hold at scheduling and the task did not   *)
(* summarize) are all in the memory the task is about to save, in their    *)
(* order, behind the summary.                                              *)
(***************************************************************************)
CompactionKeepsLinesSavedMeanwhile ==
  [][\A i \in DOMAIN tasks :
       (tasks[i].pc = "fetching" /\ tasks'[i].pc = "saving") =>
         LET ch == tasks[i].character_id
             read == StoredMemory(tasks[i].world_id, ch)
             written == heap'[tasks'[i].world].characters[ch].narrative_memory
             Meanwhile(memory) ==
               SelectSeq(memory, LAMBDA l : l \notin Range(sched[i].stored)
                                            /\ l \notin Range(tasks[i].chunk))
         IN  /\ written # <<>>
             /\ Head(written) = tasks[i].summary
             /\ Meanwhile(Tail(written)) = Meanwhile(read)]_vars


(***************************************************************************)
(* C27: the save of a compaction task puts the world the task read, with   *)
(* the memory rewritten, in place of whatever the store holds. A world a   *)
(* caller saved after the task's read and before the task's save is        *)
(* overwritten: a line the caller added and the task's world lacks is not  *)
(* in the store afterwards.                                                *)
(***************************************************************************)
CompactionSaveOverwritesForeground ==
  [][\A i \in DOMAIN tasks :
       (tasks[i].pc = "saving" /\ tasks'[i].pc = "done") =>
         /\ Stored(tasks[i].world_id)' = heap[tasks[i].world]
         /\ \A c \in Callers :
              (/\ savedLog # <<>>
               /\ savedLog[Len(savedLog)].by = c
               /\ HasNote(Stored(tasks[i].world_id), c)
               /\ ~HasNote(heap[tasks[i].world], c))
                => ~HasNote(Stored(tasks[i].world_id)', c)]_vars

\* Witness: the store held [e0..e14] when the task read it; the caller then
\* saved the world with its note, and the task's save has left the store with
\* [summary, e10..e14], without the note.
NoteSavedThenOverwritten ==
  /\ Len(tasks) = 1
  /\ tasks[1].pc = "done"
  /\ Len(tasks[1].chunk) = DEFAULT_ITEMS_TO_SUMMARIZE
  /\ savedLog = <<[by |-> "c1", noted |-> TRUE], [by |-> TaskAddr(1), noted |-> FALSE]>>
  /\ StoredMemory(WORLD_ID, PLAYER_ID) =
       <<Summary(1)>> \o Drop(EventLog(DEFAULT_THRESHOLD), DEFAULT_ITEMS_TO_SUMMARIZE)


MoveWritesOneLinePerWitness ==
  [][(move.pc = "idle" /\ move'.pc = "publishing") =>
       LET before == heap[held[move'.caller]]
           after == heap'[held[move'.caller]]
           mover == move'.command.character_id
           origin == before.characters[mover].location_id
           target == move'.command.target_location_id
           Others(location_id) ==
             SelectSeq(CharacterOrder,
               LAMBDA ch : /\ ch \in DOMAIN before.characters
                           /\ ch # mover
                           /\ before.characters[ch].location_id = location_id)
       IN  /\ DOMAIN after.characters = DOMAIN before.characters
           /\ \A ch \in DOMAIN before.characters :
                /\ after.characters[ch].location_id =
                     IF ch = mover THEN target ELSE before.characters[ch].location_id
                /\ after.characters[ch].narrative_memory =
                     LET memory == before.characters[ch].narrative_memory
                     IN  IF ch = mover THEN Append(memory, Moved(origin, target))
                         ELSE IF ch \in Range(Others(origin))
                         THEN Append(memory, SawLeave(mover, origin))
                         ELSE IF ch \in Range(Others(target))
                         THEN Append(memory, SawArrive(mover, target))
                         ELSE memory
           /\ move'.changed = Others(origin) \o <<mover>> \o Others(target)]_vars

\* Witness: the player has moved from the bridge to the deck and on to the
\* cabin; Sophie, on the bridge, saw the player leave the bridge and has no
\* line of the second move.
SophieSawOnlyTheFirstMove ==
  /\ lastOp.op = "move"
  /\ lastOp.outcome = "ok"
  /\ lastOp.command = MoveCharacterCommand(PLAYER_ID, "cabin")
  /\ lastOp.from = "deck"
  /\ "sophie" \in DOMAIN heap[held[lastOp.caller]].characters
  /\ heap[held[lastOp.caller]].characters["sophie"].location_id = "bridge"
  /\ heap[held[lastOp.caller]].characters["sophie"].narrative_memory =
       <<SawLeave(PLAYER_ID, "bridge")>>


(***************************************************************************)
(* C30: a Move that succeeds publishes one CharacterMoved event, carrying  *)
(* the mover, the origin and the target, and no other event; when publish  *)
(* has returned it runs the compaction check once for each character it    *)
(* appended a line to (the mover, the other characters in the origin and   *)
(* in the destination) and for nobody else: one task is scheduled for each *)
(* of them whose memory has more than DEFAULT_THRESHOLD lines, with the    *)
(* first DEFAULT_ITEMS_TO_SUMMARIZE lines as its chunk, and no other task. *)
(***************************************************************************)
MovePublishesOnceAndChecksWitnesses ==
  /\ [][(move.pc = "idle" /\ move'.pc = "publishing") =>
          pub'.event = CharacterMoved(
                         move'.command.character_id,
                         heap[held[move'.caller]].characters[move'.command.character_id].location_id,
                         move'.command.target_location_id)]_vars
  /\ [][move.pc = "publishing" => pub'.event = pub.event]_vars
  /\ [][(move.pc = "publishing" /\ move'.pc = "idle" /\ lastOp'.outcome = "ok") =>
          LET world == heap[held[move.caller]]
              mover == move.command.character_id
              Appended == {ch \in DOMAIN world.characters :
                             \/ ch = mover
                             \/ world.characters[ch].location_id
                                  \in {move.from, move.command.target_location_id}}
              new == SubSeq(tasks', Len(tasks) + 1, Len(tasks'))
          IN  /\ pub.pc = "returned"
              /\ pub.event = CharacterMoved(mover, move.from, move.command.target_location_id)
              /\ \A ch \in CharacterIds \cup Range(move.changed) :
                   Cardinality({k \in DOMAIN move.changed : move.changed[k] = ch})
                     = IF ch \in Appended THEN 1 ELSE 0
              /\ SubSeq(tasks', 1, Len(tasks)) = tasks
              /\ \A ch \in CharacterIds :
                   Cardinality({k \in DOMAIN new : new[k].character_id = ch})
                     = IF /\ ch \in Appended
                          /\ Len(world.characters[ch].narrative_memory) > DEFAULT_THRESHOLD
                       THEN 1 ELSE 0
              /\ \A k \in DOMAIN new :
                   new[k].chunk = Take(world.characters[new[k].character_id].narrative_memory,
                                       DEFAULT_ITEMS_TO_SUMMARIZE)]_vars

\* Witness: Sophie has moved from the bridge to the deck under the eyes of the
\* player, whose memory has grown beyond the threshold: the event names
\* Sophie, and the one task scheduled is for the player.
ObserverCheckedAfterSophieMoved ==
  /\ lastOp.op = "move"
  /\ lastOp.outcome = "ok"
  /\ lastOp.command = MoveCharacterCommand("sophie", "deck")
  /\ pub.event = CharacterMoved("sophie", "bridge", "deck")
  /\ Len(tasks) = 1
  /\ tasks[1].character_id = PLAYER_ID
  /\ tasks[1].chunk = EventLog(DEFAULT_ITEMS_TO_SUMMARIZE)


(***************************************************************************)
(* C31: a Move whose target is the location the mover is in returns the    *)
(* world as it is: the call ends as a no-op, and its step changes neither  *)
(* the world in hand (no narrative line, no location) nor the bus (no      *)
(* event published) nor the background tasks (no compaction scheduled) nor *)
(* the store.                                                              *)
(***************************************************************************)
MoveToOwnLocationIsNoOp ==
  /\ [](lastOp.op = "move" =>
         (lastOp.outcome = "noop"
            <=> (lastOp.from # None /\ lastOp.from = lastOp.command.target_location_id)))
  /\ [][(lastOp' # lastOp /\ lastOp'.op = "move"
           /\ lastOp'.from # None /\ lastOp'.from = lastOp'.command.target_location_id)
          => UNCHANGED <<_worlds, heap, held, tasks, sched, LastSaved, savedLog,
                         _subscriptions, pub, move>>]_vars

\* Witness: the player, on the bridge with a memory long enough for a
\* compaction and with handlers subscribed, has been moved to the bridge:
\* nothing is published and no task is scheduled.
MovedToTheBridgeFromTheBridge ==
  /\ lastOp.op = "move"
  /\ lastOp.outcome = "noop"
  /\ lastOp.command = MoveCharacterCommand(PLAYER_ID, "bridge")
  /\ Len(_subscriptions) = 2
  /\ Len(heap[held[lastOp.caller]].characters[PLAYER_ID].narrative_memory) > DEFAULT_THRESHOLD
  /\ tasks = <<>>
  /\ pub = NoPub

(***************************************************************************)
(* C32: when the player types look, move, examine or accuse while one of   *)
(* the world's sessions is open, the turn ends that session (the call      *)
(* returns) and, after the turn, the stored world's active_dialogues no    *)
(* longer holds it.                                                        *)
(***************************************************************************)
OpenSessionEndedByOtherAction ==
  (/\ lastOp.op = "turn"
   /\ lastOp.session_id \in DOMAIN lastOp.before.active_dialogues
   /\ lastOp.before.active_dialogues[lastOp.session_id].is_active)
  => /\ lastOp.ended = "returned"
     /\ lastOp.session_id \notin DOMAIN Stored(WORLD_ID).active_dialogues

(***************************************************************************)
(* C33: a scheduled move that fails does not end the run of the schedules: *)
(* whenever execute_npc_behaviors has called the Move handler for a        *)
(* character's entry, the run still returns (the failure is caught and the *)
(* characters after it are processed).                                     *)
(***************************************************************************)
ScheduledMoveFailureIsCaught ==
  (lastOp.op = "npc" /\ lastOp.calls # <<>>) => lastOp.outcome = "returned"

(***************************************************************************)
(* C34: one request calls the backend at most max_retries = 3 times; every *)
(* call but the last ended with one of the three transient errors (so the  *)
(* request returned at its first response and never retried after another  *)
(* error); the request returns iff its last call gave a response; it       *)
(* raises a transient error only as the error of its third call, and any   *)
(* other error as the error of the call that raised it; and a request in   *)
(* progress ends.                                                          *)
(***************************************************************************)
RequestCallsBackendAtMostThreeTimes ==
  LET Transient == {"APIConnectionError", "Timeout", "ServiceUnavailableError"}
      calls == lastOp.calls
      n == Len(calls)
  IN  /\ [](lastOp.op = "llm" =>
             /\ n <= 3
             /\ \A i \in 1..(n - 1) : calls[i] \in Transient
             /\ lastOp.outcome = "pending" => (cmd.pc # "idle" /\ \A i \in 1..n : calls[i] \in Transient)
             /\ lastOp.outcome # "pending" =>
                  /\ cmd.pc = "idle"
                  /\ n >= 1
                  /\ lastOp.outcome = (IF calls[n] = "response" THEN "returned" ELSE calls[n])
                  /\ calls[n] \in Transient => n = 3)
      /\ (cmd.pc # "idle") ~> (cmd.pc = "idle")

\* Witness: the request has raised the Timeout of its third call, after a
\* connection error and an unavailable service.
ThirdTransientErrorRaised ==
  /\ lastOp.op = "llm"
  /\ lastOp.calls = <<"APIConnectionError", "ServiceUnavailableError", "Timeout">>
  /\ lastOp.outcome = "Timeout"
  /\ cmd.pc = "idle"

(***************************************************************************)
(* C35: the steps of a move, an examine, a talk and an end of dialogue     *)
(* only append to narrative memory: in every world object that exists      *)
(* before and after the step (the one in hand, the stored one), and in the *)
(* world a talk or an examine fetched and then wrote to, every character   *)
(* is still there and its memory before is a prefix of its memory after.   *)
(***************************************************************************)
OperationsOnlyAppendToMemory ==
  [][LET IsWorld(w) == "characters" \in DOMAIN w
         AppendOnly(w1, w2) ==
           \A ch \in DOMAIN w1.characters :
             /\ ch \in DOMAIN w2.characters
             /\ IsPrefix(w1.characters[ch].narrative_memory,
                         w2.characters[ch].narrative_memory)
     IN  lastOp'.op \in {"move", "examine", "talk", "end"} =>
           /\ \A a \in DOMAIN heap :
                (IsWorld(heap[a]) /\ IsWorld(heap'[a])) => AppendOnly(heap[a], heap'[a])
           /\ (lastOp'.op = "talk" /\ IsWorld(lastOp'.world)) =>
                 /\ AppendOnly(lastOp'.before, lastOp'.world)
                 /\ held[lastOp'.caller] # None
                 /\ AppendOnly(heap[held[lastOp'.caller]], lastOp'.world)
           /\ (lastOp'.op = "examine" /\ IsWorld(lastOp'.saved)) =>
                 AppendOnly(lastOp'.before, lastOp'.saved)]_vars

\* Witness: a talk has ended with the player's memory longer than the
\* non-empty memory of the world it fetched, which begins it.
TalkExtendedStoredMemory ==
  /\ lastOp.op = "talk"
  /\ lastOp.outcome = "AttributeError"
  /\ lastOp.before.characters[PLAYER_ID].narrative_memory # <<>>
  /\ Len(lastOp.world.characters[PLAYER_ID].narrative_memory)
       > Len(lastOp.before.characters[PLAYER_ID].narrative_memory)
  /\ lastOp.before.characters["sophie"].narrative_memory # <<>>

(***************************************************************************)
(* C36: a compaction task removes from the memory it rewrites only entries *)
(* of the chunk it summarized: at the step where a task reads the store    *)
(* and rewrites the character's memory, every entry of the stored memory   *)
(* that is missing from the rewritten one is an entry of the task's chunk  *)
(* (so the summary of an earlier task and the entries the task never       *)
(* summarized are kept).                                                   *)
(***************************************************************************)
TaskRemovesOnlyItsChunk ==
  [][\A i \in DOMAIN tasks :
       (i \in DOMAIN tasks' /\ tasks[i].pc = "fetching" /\ tasks'[i].pc = "saving") =>
         LET current_memory == StoredMemory(tasks[i].world_id, tasks[i].character_id)
             rewritten == heap'[tasks'[i].world].characters[tasks[i].character_id].narrative_memory
         IN  \A k \in DOMAIN current_memory :
               current_memory[k] \in Range(rewritten) \/ current_memory[k] \in Range(tasks[i].chunk)]_vars

(***************************************************************************)
(* C37: while a subscriber runs for a published event (it was given no     *)
(* world and fetches the stored one), the stored world holds the change    *)
(* the event describes: the mover is at to_location_id for CharacterMoved, *)
(* the fact is in the character's knowledge for FactDiscovered.            *)
(***************************************************************************)
SubscriberFetchesThePublishedChange ==
  (/\ pub.pc = "awaiting"
   /\ \E i \in DOMAIN pub.runs : pub.runs[i].status = "running")
  => /\ "characters" \in DOMAIN Stored(WORLD_ID)
     /\ pub.event.character_id \in DOMAIN Stored(WORLD_ID).characters
     /\ pub.event.type = "CharacterMoved" =>
          Stored(WORLD_ID).characters[pub.event.character_id].location_id
            = pub.event.to_location_id
     /\ pub.event.type = "FactDiscovered" =>
          pub.event.fact_id \in DOMAIN Stored(WORLD_ID).characters[pub.event.character_id].knowledge

(***************************************************************************)
(* C38: a Move that raises, from one of its checks or from the publish of  *)
(* its event, leaves the world it was passed as it was: in the world the   *)
(* caller has in hand the mover is where it was before the call and its    *)
(* memory does not end with the line of this move.                         *)
(***************************************************************************)
MoveThatRaisesLeavesTheWorld ==
  (/\ lastOp.op = "move"
   /\ lastOp.outcome \in ValidationErrors \cup {"publish raised"}
   /\ held[lastOp.caller] # None
   /\ lastOp.command.character_id \in DOMAIN heap[held[lastOp.caller]].characters)
  => LET mover == heap[held[lastOp.caller]].characters[lastOp.command.character_id]
         memory == mover.narrative_memory
     IN  /\ mover.location_id = lastOp.from
         /\ memory # <<>> =>
              memory[Len(memory)] # Moved(lastOp.from, lastOp.command.target_location_id)

(***************************************************************************)
(* C39: when the generation of the reply fails, the talk ends with that    *)
(* failure and without effect: at the step where the failure leaves        *)
(* execute, the world in hand is still the world that was fetched (no line *)
(* and no knowledge added), the store and the record of its saves are      *)
(* unchanged, nothing is published and no task is scheduled; and a talk    *)
(* that awaits its reply ends at its next step, with the failure or past   *)
(* the reply.                                                              *)
(***************************************************************************)
FailedGenerationHasNoEffect ==
  [][cmd.pc = "generating" =>
       /\ lastOp'.op = "talk"
       /\ lastOp'.outcome \in {"generation failed", "AttributeError"}
       /\ lastOp'.outcome = "generation failed" =>
            /\ heap[held[cmd.caller]] = lastOp'.before
            /\ lastOp'.world = NoWorld
            /\ lastOp'.response = NoResponse
            /\ Stored(WORLD_ID)' = Stored(WORLD_ID)
            /\ UNCHANGED <<_worlds, LastSaved, savedLog, pub, tasks, sched>>]_vars

\* Witness: the player's talk to Sophie has failed at the generation, from
\* a stored world in which the player has fifteen lines of memory.
TalkFailedAtGeneration ==
  /\ lastOp.op = "talk"
  /\ lastOp.outcome = "generation failed"
  /\ lastOp.command = TalkToCharacterCommand(PLAYER_ID, "sophie", "hello")
  /\ Len(lastOp.before.characters[PLAYER_ID].narrative_memory) = DEFAULT_THRESHOLD
  /\ StoredMemory(WORLD_ID, PLAYER_ID) = lastOp.before.characters[PLAYER_ID].narrative_memory
  /\ pub = NoPub
  /\ cmd.pc = "idle"

====
